---- MODULE Spec2Model ----
(***************************************************************************)
(* LinguaSync (Look-And-Listen-To-Learn): the session state controller of  *)
(* App.tsx, the favorites view, the transcript highlighting and the parts  *)
(* of the audio player and of the transcription service they depend on.    *)
(* Spec is the application; SpecMerge runs the segment merger of           *)
(* geminiService.ts on bounded inputs; SpecClient runs the four exported   *)
(* functions of geminiService.ts against every answer of the providers;    *)
(* SpecUpload is the file input of FileUpload.tsx in front of the session, *)
(* FairSpecUpload the same with every request in flight being answered;    *)
(* SpecViews is the practice done in TranscriptView.tsx and in             *)
(* ShadowingView.tsx on a transcript that has been loaded.                 *)
(*                                                                         *)
(* Time is counted in ticks of half a second: 0.5 s = 1 tick, 2.0 s = 4    *)
(* ticks.  A text is a sequence of tokens; the token " " is one whitespace  *)
(* character, every other token is a run of non-whitespace characters.     *)
(***************************************************************************)
EXTENDS Integers, Sequences, FiniteSets, TLC

VARIABLES
    appState,       \* App.tsx useState<AppState>
    audioFile,      \* App.tsx useState<AudioFileMetadata | null>
    transcription,  \* App.tsx useState<TranscriptionResponse | null>
    currentTime,    \* App.tsx useState(0), in ticks
    activeTab,      \* App.tsx useState('original')
    pending,        \* handleFileSelected invocations suspended at `await transcribeAudio(file)`
    liveUrls,       \* object URLs created and not yet revoked
    nextUrl,        \* the next URL URL.createObjectURL hands out
    elTime,         \* audioRef.current.currentTime, NoElement while no <audio> is mounted
    isPlaying,      \* AudioPlayer useState(false)
    timeupdateQueued, \* the <audio> element was seeked and its timeupdate event is
                    \* not yet dispatched
    lastEvent,      \* the event handled last and its argument (observation only:
                    \* no handler reads it)
    rawSegments,    \* geminiService.ts: the argument `segments` of mergeShortSegments
    mergedSegments, \* geminiService.ts: what mergeShortSegments returned, Null before it ran
    mergeRuns,      \* how many times the merger has run on this input and its own output
    env,            \* geminiService.ts: process.env, which credentials are configured
    request,        \* geminiService.ts: the exported function called last, its arguments
                    \* and what the providers answered; Null before the first call
    outcome,        \* geminiService.ts: how that call settled; Null before the first call
    errorMsg,       \* FileUpload.tsx useState<string | null>(null)
    currentIndex,   \* ShadowingView.tsx useState(0), 0-based as in the source
    isRecording,    \* ShadowingView.tsx useState(false)
    score,          \* ShadowingView.tsx useState<PronunciationScore | null>(null)
    isProcessing,   \* ShadowingView.tsx useState(false)
    definition,     \* TranscriptView.tsx useState<WordDefinition | null>(null)
    audioCache,     \* TranscriptView.tsx: the texts that have an entry in audioCache
    loadingIdiomText,   \* TranscriptView.tsx useState<string | null>(null)
    playingIdiomText,   \* TranscriptView.tsx useState<string | null>(null)
    recordingIdiomText, \* TranscriptView.tsx useState<string | null>(null)
    scoringIdiomText,   \* TranscriptView.tsx useState<string | null>(null)
    idiomScores,    \* TranscriptView.tsx: the texts that have an entry in idiomScores
    userRecordings, \* TranscriptView.tsx: the entries text -> blob URL
    mediaRecorder,  \* AudioRecorder.mediaRecorder of the mounted view's recorder
    audioChunks,    \* AudioRecorder.audioChunks: the recordings whose data it holds
    streams,        \* the media streams obtained whose tracks have not been stopped
    recordingUrls,  \* the blob URLs created for recordings and not revoked
    nextCall,       \* the number the next asynchronous operation is given
    starting,       \* handlers suspended in recorder.start() at getUserMedia
    stopping,       \* handlers suspended at `await recorder.stop()`
    scoring,        \* handlers suspended at `await scorePronunciation(...)`
    speaking,       \* handlers suspended at `await generateSpeech(...)`
    defining,       \* handlers suspended at `await getWordDefinition(...)`
    synthesized     \* the texts for which a call of generateSpeech has succeeded

\* The state of App.tsx and AudioPlayer.tsx.
app == <<appState, audioFile, transcription, currentTime, activeTab,
         pending, liveUrls, nextUrl, elTime, isPlaying, timeupdateQueued, lastEvent>>

\* The state of the segment merger studied on its own.
merger == <<rawSegments, mergedSegments, mergeRuns>>

\* The state of the service client studied on its own.
client == <<env, request, outcome>>

\* The state of FileUpload.tsx.
upload == <<errorMsg>>

\* The state of ShadowingView.tsx.
shadowingView == <<currentIndex, isRecording, score, isProcessing>>

\* The state of TranscriptView.tsx.
transcriptView == <<definition, audioCache, loadingIdiomText, playingIdiomText,
                    recordingIdiomText, scoringIdiomText, idiomScores, userRecordings>>

\* The state of the two views, of their recorder and of the requests they started.
practice == <<shadowingView, transcriptView, mediaRecorder, audioChunks, streams,
              recordingUrls,
              nextCall, starting, stopping, scoring, speaking, defining,
              synthesized>>

\* The state of the components below App.tsx that are studied on their own.
views == <<upload, practice>>

\* The state of App.tsx and AudioPlayer.tsx without the observation variable.
session == <<appState, audioFile, transcription, currentTime, activeTab,
             pending, liveUrls, nextUrl, elTime, isPlaying, timeupdateQueued>>

\* Everything outside App.tsx and AudioPlayer.tsx: no handler of the two reads or
\* writes it.
aux == <<merger, client, views>>

vars == <<appState, audioFile, transcription, currentTime, activeTab,
          pending, liveUrls, nextUrl, elTime, isPlaying, timeupdateQueued, lastEvent,
          rawSegments, mergedSegments, mergeRuns, env, request, outcome,
          errorMsg, currentIndex, isRecording, score, isProcessing, definition,
          audioCache, loadingIdiomText, playingIdiomText, recordingIdiomText,
          scoringIdiomText, idiomScores, userRecordings, mediaRecorder, audioChunks,
          streams, recordingUrls, nextCall, starting, stopping, scoring, speaking,
          defining, synthesized>>

----------------------------------------------------------------------------
(* Bounds of the model *)

\* URL.createObjectURL is called at most this many times in a run.
MaxUploads == 2

----------------------------------------------------------------------------
(* Program constants *)

\* const MIN_WORDS = 4
MIN_WORDS == 4

\* duration < 2.0 (seconds), in ticks
MergeMaxDuration == 4

\* Math.abs(audioRef.current.currentTime - currentTime) > 0.5 (seconds), in ticks
SyncTolerance == 1

\* audioRef.current.currentTime -= 5 and += 5 (seconds), in ticks
SkipTicks == 10

\* null for audioFile and transcription: a state holding an object x is <<x>>.
Null == << >>
Some(x) == << x >>

\* audioRef.current is null: no <audio> element is mounted.
NoElement == -1

\* isFavorite?: boolean -- absent, true or false.
Undefined == "undefined"

\* enum AppState
AppStates == {"IDLE", "PROCESSING", "READY", "SHADOWING", "ERROR"}

\* useState<'original' | 'notes' | 'favorites'>
Tabs == {"original", "notes", "favorites"}

----------------------------------------------------------------------------
(* The files the user can pick and what the transcription service answers *)

Files == {"talk.mp3", "silence.wav"}

\* The element's duration for each file, in ticks.
Duration(file) == IF file = "talk.mp3" THEN 6 ELSE 2

RawSeg(s, e, txt, tr, idi) ==
    [start |-> s, end |-> e, text |-> txt, translation |-> tr, idiomatic |-> idi,
     isFavorite |-> Undefined]

\* The parsed JSON of the service's answer for a file: `JSON.parse(response.text)`.
\* The schema has no isFavorite property, so the field is absent (undefined).
RawResponse(file) ==
    IF file = "talk.mp3"
    THEN [language |-> "en",
          meta |-> [wordCount |-> 4, estimatedLevel |-> "B2", speed |-> "140 wpm"],
          segments |-> << RawSeg(0, 1, <<"so">>, <<"t1">>, <<>>),
                          RawSeg(1, 4, <<"ok">>, <<"t2">>, <<"i2">>),
                          RawSeg(4, 6, <<"so", " ", "ok">>, <<"t3">>, <<"i3">>) >>]
    ELSE [language |-> "en",
          meta |-> [wordCount |-> 0, estimatedLevel |-> "A1", speed |-> "0 wpm"],
          segments |-> << >>]

----------------------------------------------------------------------------
(* geminiService.ts: mergeShortSegments *)

\* The number of maximal runs of whitespace in a text.
RECURSIVE WhitespaceRuns(_)
WhitespaceRuns(text) ==
    IF text = << >> THEN 0
    ELSE IF Head(text) = " " /\ (Len(text) = 1 \/ text[2] # " ")
         THEN 1 + WhitespaceRuns(Tail(text))
         ELSE WhitespaceRuns(Tail(text))

\* text.split(/\s+/).length: one piece more than there are separators,
\* also for the empty text and for leading or trailing whitespace.
SplitLength(text) == WhitespaceRuns(text) + 1

\* Mutant: the separator is left out.
JoinSpace_NoSeparator(a, b) == a \o b

\* `${a} ${b}`
JoinSpace(a, b) == a \o <<" ">> \o b

\* Mutant: the accumulator's end is not extended to next.end.
MergeInto_KeepsEnd(current, next) ==
    [current EXCEPT !.text = JoinSpace(current.text, next.text),
                    !.translation = JoinSpace(current.translation, next.translation),
                    !.idiomatic = IF next.idiomatic # << >> THEN next.idiomatic
                                  ELSE current.idiomatic]

\* Mutant: the object is spread from next and ends where the accumulator ended.
MergeInto_SpreadsNext(current, next) ==
    [next EXCEPT !.end = current.end,
                 !.text = JoinSpace(current.text, next.text),
                 !.translation = JoinSpace(current.translation, next.translation),
                 !.idiomatic = IF next.idiomatic # << >> THEN next.idiomatic
                               ELSE current.idiomatic]

\* The object built in the merge branch: {...current, end, text, translation, idiomatic}.
MergeInto(current, next) ==
    [current EXCEPT !.end = next.end,
                    !.text = JoinSpace(current.text, next.text),
                    !.translation = JoinSpace(current.translation, next.translation),
                    !.idiomatic = IF next.idiomatic # << >> THEN next.idiomatic
                                  ELSE current.idiomatic]

\* Mutant: || in place of &&.
ShouldMerge_EitherShort(current) ==
    \/ SplitLength(current.text) < MIN_WORDS
    \/ current.end - current.start < MergeMaxDuration

\* if (currentWordCount < MIN_WORDS && duration < 2.0)
ShouldMerge(current) ==
    /\ SplitLength(current.text) < MIN_WORDS
    /\ current.end - current.start < MergeMaxDuration

\* Mutant: a merged accumulator is committed at once and the loop goes on with
\* the segment after next; nothing merges twice.
RECURSIVE MergeLoop_NoCascade(_, _, _, _)
MergeLoop_NoCascade(segments, i, current, merged) ==
    IF i > Len(segments) THEN Append(merged, current)
    ELSE IF ShouldMerge(current)
         THEN IF i + 1 > Len(segments)
              THEN Append(merged, MergeInto(current, segments[i]))
              ELSE MergeLoop_NoCascade(segments, i + 2, segments[i + 1],
                                       Append(merged, MergeInto(current, segments[i])))
         ELSE MergeLoop_NoCascade(segments, i + 1, segments[i], Append(merged, current))

\* The for loop of mergeShortSegments from index i (1-based) on.
RECURSIVE MergeLoop(_, _, _, _)
MergeLoop(segments, i, current, merged) ==
    IF i > Len(segments) THEN Append(merged, current)
    ELSE IF ShouldMerge(current)
         THEN MergeLoop(segments, i + 1, MergeInto(current, segments[i]), merged)
         ELSE MergeLoop(segments, i + 1, segments[i], Append(merged, current))

\* Mutant: the loop starts at the first segment (let i = 0), so a short first
\* segment is merged with itself.
mergeShortSegments_LoopFromFirst(segments) ==
    IF Len(segments) = 0 THEN << >>
    ELSE MergeLoop(segments, 1, segments[1], << >>)

mergeShortSegments(segments) ==
    IF Len(segments) = 0 THEN << >>
    ELSE MergeLoop(segments, 2, segments[1], << >>)

\* Every element of the returned array is an object of its own: its identity
\* (what === compares) is modelled by the field ref.
WithRefs(segments) ==
    [i \in 1..Len(segments) |->
        [start |-> segments[i].start, end |-> segments[i].end,
         text |-> segments[i].text, translation |-> segments[i].translation,
         idiomatic |-> segments[i].idiomatic, isFavorite |-> segments[i].isFavorite,
         ref |-> i]]

\* What transcribeAudio resolves to on success:
\* parsed.segments = mergeShortSegments(parsed.segments); return parsed.
transcribeAudio(file) ==
    [RawResponse(file) EXCEPT
        !.segments = WithRefs(mergeShortSegments(RawResponse(file).segments))]

----------------------------------------------------------------------------
(* App.tsx: what is rendered in a state *)

\* Mutant: the upload control is rendered whatever the state is.
FileUploadShown_Always == TRUE

\* {appState === AppState.IDLE && <FileUpload .../>}
FileUploadShown == appState = "IDLE"

\* <input disabled={appState === AppState.PROCESSING} />
InputDisabled == appState = "PROCESSING"

\* {appState === AppState.READY && (tab bar)}
TabBarShown == appState = "READY"

\* {appState === AppState.READY && audioFile && <AudioPlayer .../>}
PlayerMounted(state, file) == state = "READY" /\ file # Null

\* {appState === AppState.SHADOWING && transcription && <ShadowingView .../>}
ShadowingViewShown == appState = "SHADOWING" /\ transcription # Null

\* s => s.isFavorite (truthiness)
Truthy(flag) == flag = "true"

\* Mutant: nothing is filtered out.
FilterFavorites_All(segments) == segments

\* Array.prototype.filter(s => s.isFavorite): the elements themselves, in order.
RECURSIVE FilterFavorites(_)
FilterFavorites(segments) ==
    IF segments = << >> THEN << >>
    ELSE IF Truthy(Head(segments).isFavorite)
         THEN << Head(segments) >> \o FilterFavorites(Tail(segments))
         ELSE FilterFavorites(Tail(segments))

\* const displayedSegments = activeTab === 'favorites' && transcription
\*     ? transcription.segments.filter(s => s.isFavorite) : transcription?.segments || []
DisplayedOf(tab, trans) ==
    IF tab = "favorites" /\ trans # Null THEN FilterFavorites(trans[1].segments)
    ELSE IF trans # Null THEN trans[1].segments
    ELSE << >>

displayedSegments == DisplayedOf(activeTab, transcription)

\* The branch of the render that mounts <TranscriptView segments={displayedSegments} />.
TranscriptViewShown ==
    /\ appState = "READY" /\ transcription # Null /\ audioFile # Null
    /\ activeTab # "notes"
    /\ ~(activeTab = "favorites" /\ Len(displayedSegments) = 0)

\* Mutant: the interval is closed at its end.
isActive_Closed(time, segment) == time >= segment.start /\ time <= segment.end

\* TranscriptView: const isActive = currentTime >= segment.start && currentTime < segment.end
isActive(time, segment) == time >= segment.start /\ time < segment.end

----------------------------------------------------------------------------
(* App.tsx and AudioPlayer.tsx: effects that run after a state change *)

\* Mutant: the cleanup releases nothing.
CleanupEffect_NoRevoke(oldFile, newFile, urls) == urls

\* useEffect(() => () => { if (audioFile?.url) URL.revokeObjectURL(audioFile.url) }, [audioFile]):
\* when audioFile changes, the cleanup of the previous effect revokes the previous URL.
CleanupEffect(oldFile, newFile, urls) ==
    IF oldFile # newFile /\ oldFile # Null THEN urls \ {oldFile[1].url} ELSE urls

\* Math.abs
Abs(x) == IF x < 0 THEN -x ELSE x

\* audioRef.current.currentTime = time: the element keeps its position within
\* [0, duration].
SeekTo(time, file) ==
    IF time < 0 THEN 0
    ELSE IF time > Duration(file[1].name) THEN Duration(file[1].name)
    ELSE time

\* An effect without the tolerance: it writes on every run.
Seeks_Always(el, time) == TRUE

\* The effect's condition for writing the element's position:
\* Math.abs(audioRef.current.currentTime - currentTime) > 0.5
Seeks(el, time) == Abs(el - time) > SyncTolerance

\* useEffect(() => { if (audioRef.current &&
\*     Math.abs(audioRef.current.currentTime - currentTime) > 0.5)
\*     audioRef.current.currentTime = currentTime }, [currentTime])
SyncEffect(el, time, file) ==
    IF Seeks(el, time) THEN SeekTo(time, file) ELSE el

\* The element after the render that follows a state change: unmounted with the
\* player, created at position 0 with it (the effect runs on mount), and otherwise
\* synchronised when currentTime changed.
ElementAfter(state2, file2, time2) ==
    IF ~PlayerMounted(state2, file2) THEN NoElement
    ELSE IF ~PlayerMounted(appState, audioFile) THEN SyncEffect(0, time2, file2)
    ELSE IF time2 # currentTime THEN SyncEffect(elTime, time2, file2)
    ELSE elTime

\* Whether a timeupdate of the element is queued after the render that follows a
\* state change: none without an element, one for every seek the effect makes.
QueuedAfter(state2, file2, time2) ==
    IF ~PlayerMounted(state2, file2) THEN FALSE
    ELSE IF ~PlayerMounted(appState, audioFile) THEN Seeks(0, time2)
    ELSE IF time2 # currentTime THEN timeupdateQueued \/ Seeks(elTime, time2)
    ELSE timeupdateQueued

\* AudioPlayer's isPlaying is component state: useState(false) on every mount.
PlayingAfter(state2, file2) ==
    IF PlayerMounted(state2, file2) /\ PlayerMounted(appState, audioFile)
    THEN isPlaying ELSE FALSE

\* The value of lastEvent: the handler that ran and what it was given.
Event(op, arg) == [op |-> op, arg |-> arg]

----------------------------------------------------------------------------
(* App.tsx: the favorite toggle *)

\* Mutant: the flag is set instead of inverted.
Negate_AlwaysTrue(flag) == "true"

\* !segment.isFavorite
Negate(flag) == IF Truthy(flag) THEN "false" ELSE "true"

\* The identity of a newly created object: one that no element of the array has.
FreshRef(segments) ==
    CHOOSE n \in 1..(Len(segments) + 1) :
        /\ \A i \in 1..Len(segments) : segments[i].ref # n
        /\ \A m \in 1..(n - 1) : \E i \in 1..Len(segments) : segments[i].ref = m

\* Mutant: the lookup compares the text, not the object.
indexOf_ByText(segments, segment) ==
    IF \E i \in 1..Len(segments) : segments[i].text = segment.text
    THEN CHOOSE i \in 1..Len(segments) :
            /\ segments[i].text = segment.text
            /\ \A j \in 1..(i - 1) : segments[j].text # segment.text
    ELSE 0

\* transcription.segments.indexOf(segment): the first position holding the very
\* same object (===), 0 when there is none (JavaScript's -1).
indexOf(segments, segment) ==
    IF \E i \in 1..Len(segments) : segments[i].ref = segment.ref
    THEN CHOOSE i \in 1..Len(segments) :
            /\ segments[i].ref = segment.ref
            /\ \A j \in 1..(i - 1) : segments[j].ref # segment.ref
    ELSE 0

\* The body of handleToggleFavorite(index) for a non-null transcription:
\* newSegments[index] = {...newSegments[index], isFavorite: !newSegments[index].isFavorite};
\* setTranscription({...transcription, segments: newSegments}).
ToggledTranscription(trans, index) ==
    [trans EXCEPT !.segments =
        [trans.segments EXCEPT ![index] =
            [@ EXCEPT !.isFavorite = Negate(@), !.ref = FreshRef(trans.segments)]]]

----------------------------------------------------------------------------
(* The state after construction *)

\* App.tsx after construction: the useState initial values, nothing mounted.
AppIdle ==
    /\ appState = "IDLE"
    /\ audioFile = Null
    /\ transcription = Null
    /\ currentTime = 0
    /\ activeTab = "original"
    /\ pending = {}
    /\ liveUrls = {}
    /\ nextUrl = 1
    /\ elTime = NoElement
    /\ isPlaying = FALSE
    /\ timeupdateQueued = FALSE
    /\ lastEvent = Event("init", 0)

\* The merger has not been called.
MergerIdle ==
    /\ rawSegments = << >>
    /\ mergedSegments = Null
    /\ mergeRuns = 0

\* No function of the service client has been called; both credentials are set.
ClientIdle ==
    /\ env = [API_KEY |-> TRUE, DEEPSEEK_API_KEY |-> TRUE]
    /\ request = Null
    /\ outcome = Null

\* FileUpload.tsx after construction: no validation message.
UploadIdle == errorMsg = Null

\* ShadowingView.tsx, TranscriptView.tsx and their recorder after construction:
\* the useState initial values, no request made.
PracticeIdle ==
    /\ currentIndex = 0
    /\ isRecording = FALSE
    /\ score = Null
    /\ isProcessing = FALSE
    /\ definition = Null
    /\ audioCache = {}
    /\ loadingIdiomText = Null
    /\ playingIdiomText = Null
    /\ recordingIdiomText = Null
    /\ scoringIdiomText = Null
    /\ idiomScores = {}
    /\ userRecordings = {}
    /\ mediaRecorder = Null
    /\ audioChunks = << >>
    /\ streams = {}
    /\ recordingUrls = {}
    /\ nextCall = 1
    /\ starting = {}
    /\ stopping = {}
    /\ scoring = {}
    /\ speaking = {}
    /\ defining = {}
    /\ synthesized = {}

\* The components studied on their own after construction.
ViewsIdle == UploadIdle /\ PracticeIdle

Init ==
    /\ AppIdle
    /\ MergerIdle
    /\ ClientIdle
    /\ ViewsIdle

----------------------------------------------------------------------------
(* App.tsx: the handlers *)

\* What handleFileSelected does to the session up to `await transcribeAudio(file)`:
\* createObjectURL, setAudioFile, setAppState(PROCESSING), and the request.
onFileSelected(file) ==
    /\ nextUrl <= MaxUploads
    /\ LET newFile == Some([name |-> file, url |-> nextUrl]) IN
        /\ appState' = "PROCESSING"
        /\ audioFile' = newFile
        /\ liveUrls' = CleanupEffect(audioFile, newFile, liveUrls \cup {nextUrl})
        /\ pending' = pending \cup {[url |-> nextUrl, file |-> file]}
        /\ nextUrl' = nextUrl + 1
        /\ elTime' = ElementAfter("PROCESSING", newFile, currentTime)
        /\ timeupdateQueued' = QueuedAfter("PROCESSING", newFile, currentTime)
        /\ isPlaying' = PlayingAfter("PROCESSING", newFile)
    /\ UNCHANGED <<transcription, currentTime, activeTab>>

\* FileUpload hands an audio file to handleFileSelected.
handleFileSelected(file) ==
    /\ FileUploadShown /\ ~InputDisabled
    /\ onFileSelected(file)
    /\ lastEvent' = Event("select", [url |-> nextUrl, file |-> file])
    /\ UNCHANGED aux

\* handleFileSelected resumes after the await: setTranscription(result); setAppState(READY).
TranscribeResolved(req) ==
    /\ req \in pending
    /\ pending' = pending \ {req}
    /\ transcription' = Some(transcribeAudio(req.file))
    /\ appState' = "READY"
    /\ elTime' = ElementAfter("READY", audioFile, currentTime)
    /\ timeupdateQueued' = QueuedAfter("READY", audioFile, currentTime)
    /\ isPlaying' = PlayingAfter("READY", audioFile)
    /\ lastEvent' = Event("resolved", req)
    /\ UNCHANGED aux
    /\ UNCHANGED <<audioFile, currentTime, activeTab, liveUrls, nextUrl>>

\* Mutant: the catch block logs the error and leaves appState as it is.
TranscribeRejected_Swallowed(req) ==
    /\ req \in pending
    /\ pending' = pending \ {req}
    /\ lastEvent' = Event("rejected", req)
    /\ UNCHANGED aux
    /\ UNCHANGED <<appState, audioFile, transcription, currentTime, activeTab, liveUrls,
                   nextUrl, elTime, isPlaying, timeupdateQueued>>

\* handleFileSelected resumes in its catch block: setAppState(ERROR).
TranscribeRejected(req) ==
    /\ req \in pending
    /\ pending' = pending \ {req}
    /\ appState' = "ERROR"
    /\ elTime' = ElementAfter("ERROR", audioFile, currentTime)
    /\ timeupdateQueued' = QueuedAfter("ERROR", audioFile, currentTime)
    /\ isPlaying' = PlayingAfter("ERROR", audioFile)
    /\ lastEvent' = Event("rejected", req)
    /\ UNCHANGED aux
    /\ UNCHANGED <<audioFile, transcription, currentTime, activeTab, liveUrls, nextUrl>>

\* Mutant: the reset leaves the playback position as it is.
handleReset_KeepsTime ==
    /\ appState' = "IDLE"
    /\ audioFile' = Null
    /\ transcription' = Null
    /\ liveUrls' = CleanupEffect(audioFile, Null, liveUrls)
    /\ elTime' = ElementAfter("IDLE", Null, 0)
    /\ timeupdateQueued' = QueuedAfter("IDLE", Null, 0)
    /\ isPlaying' = PlayingAfter("IDLE", Null)
    /\ lastEvent' = Event("reset", 0)
    /\ UNCHANGED aux
    /\ UNCHANGED <<currentTime, activeTab, pending, nextUrl>>

\* The header's back button, rendered in every state.
handleReset ==
    /\ appState' = "IDLE"
    /\ audioFile' = Null
    /\ transcription' = Null
    /\ currentTime' = 0
    /\ liveUrls' = CleanupEffect(audioFile, Null, liveUrls)
    /\ elTime' = ElementAfter("IDLE", Null, 0)
    /\ timeupdateQueued' = QueuedAfter("IDLE", Null, 0)
    /\ isPlaying' = PlayingAfter("IDLE", Null)
    /\ lastEvent' = Event("reset", 0)
    /\ UNCHANGED aux
    /\ UNCHANGED <<activeTab, pending, nextUrl>>

\* onEnterShadowing={() => setAppState(AppState.SHADOWING)}, a button of the player.
onEnterShadowing ==
    /\ PlayerMounted(appState, audioFile)
    /\ appState' = "SHADOWING"
    /\ elTime' = ElementAfter("SHADOWING", audioFile, currentTime)
    /\ timeupdateQueued' = QueuedAfter("SHADOWING", audioFile, currentTime)
    /\ isPlaying' = PlayingAfter("SHADOWING", audioFile)
    /\ lastEvent' = Event("enterShadowing", 0)
    /\ UNCHANGED aux
    /\ UNCHANGED <<audioFile, transcription, currentTime, activeTab, pending, liveUrls, nextUrl>>

\* onClose={() => setAppState(AppState.READY)}, a button of the shadowing view.
onClose ==
    /\ ShadowingViewShown
    /\ appState' = "READY"
    /\ elTime' = ElementAfter("READY", audioFile, currentTime)
    /\ timeupdateQueued' = QueuedAfter("READY", audioFile, currentTime)
    /\ isPlaying' = PlayingAfter("READY", audioFile)
    /\ lastEvent' = Event("closeShadowing", 0)
    /\ UNCHANGED aux
    /\ UNCHANGED <<audioFile, transcription, currentTime, activeTab, pending, liveUrls, nextUrl>>

\* onClick={() => setActiveTab(tab)}
setActiveTab(tab) ==
    /\ TabBarShown
    /\ activeTab' = tab
    /\ lastEvent' = Event("tab", 0)
    /\ UNCHANGED aux
    /\ UNCHANGED <<appState, audioFile, transcription, currentTime, pending, liveUrls,
                   nextUrl, elTime, isPlaying, timeupdateQueued>>

\* The bookmark button of the k-th displayed item: onToggleFavorite(segment), that is
\* idx = transcription.segments.indexOf(segment); if (idx !== -1) handleToggleFavorite(idx).
onToggleFavorite(k) ==
    /\ TranscriptViewShown
    /\ k \in 1..Len(displayedSegments)
    /\ LET idx == indexOf(transcription[1].segments, displayedSegments[k]) IN
        /\ transcription' = IF idx # 0
                             THEN Some(ToggledTranscription(transcription[1], idx))
                             ELSE transcription
        /\ lastEvent' = Event("toggleFavorite", [k |-> k, idx |-> idx])
        /\ UNCHANGED aux
    /\ UNCHANGED <<appState, audioFile, currentTime, activeTab, pending, liveUrls,
                   nextUrl, elTime, isPlaying, timeupdateQueued>>

\* onSegmentClick={(time) => setCurrentTime(time)} with segment.start of the k-th item.
onSegmentClick(k) ==
    /\ TranscriptViewShown
    /\ k \in 1..Len(displayedSegments)
    /\ currentTime' = displayedSegments[k].start
    /\ elTime' = ElementAfter(appState, audioFile, displayedSegments[k].start)
    /\ timeupdateQueued' = QueuedAfter(appState, audioFile, displayedSegments[k].start)
    /\ lastEvent' = Event("segmentClick", k)
    /\ UNCHANGED aux
    /\ UNCHANGED <<appState, audioFile, transcription, activeTab, pending, liveUrls,
                   nextUrl, isPlaying>>

----------------------------------------------------------------------------
(* AudioPlayer.tsx: the handlers *)

\* audioRef.current.play() on media that has ended: the element first seeks to the
\* start (the media element's play steps).
Restarts == ~isPlaying /\ elTime = Duration(audioFile[1].name)

\* togglePlay: pause() when playing, play() otherwise, then setIsPlaying(!isPlaying).
togglePlay ==
    /\ PlayerMounted(appState, audioFile)
    /\ isPlaying' = ~isPlaying
    /\ elTime' = IF Restarts THEN 0 ELSE elTime
    /\ timeupdateQueued' = (timeupdateQueued \/ Restarts)
    /\ lastEvent' = Event("togglePlay", 0)
    /\ UNCHANGED aux
    /\ UNCHANGED <<appState, audioFile, transcription, currentTime, activeTab, pending,
                   liveUrls, nextUrl>>

\* Playback advances the element by one tick and the element dispatches timeupdate:
\* handleTimeUpdate calls onTimeUpdate(audioRef.current.currentTime). The event
\* reports the position the element has now, a queued one has nothing to add; a
\* write of the effect would queue another.
PlaybackTick ==
    /\ PlayerMounted(appState, audioFile)
    /\ isPlaying
    /\ elTime < Duration(audioFile[1].name)
    /\ currentTime' = elTime + 1
    /\ elTime' = SyncEffect(elTime + 1, elTime + 1, audioFile)
    /\ timeupdateQueued' = Seeks(elTime + 1, elTime + 1)
    /\ lastEvent' = Event("timeupdate", elTime + 1)
    /\ UNCHANGED aux
    /\ UNCHANGED <<appState, audioFile, transcription, activeTab, pending, liveUrls,
                   nextUrl, isPlaying>>

\* onEnded={() => setIsPlaying(false)}
onEnded ==
    /\ PlayerMounted(appState, audioFile)
    /\ isPlaying
    /\ elTime = Duration(audioFile[1].name)
    /\ isPlaying' = FALSE
    /\ lastEvent' = Event("ended", 0)
    /\ UNCHANGED aux
    /\ UNCHANGED <<appState, audioFile, transcription, currentTime, activeTab, pending,
                   liveUrls, nextUrl, elTime, timeupdateQueued>>

\* <input type="range" min="0" max={duration || 100} />, the metadata being loaded.
SeekBarRange == IF audioFile = Null THEN {} ELSE 0..Duration(audioFile[1].name)

\* The seek bar's onChange: audioRef.current.currentTime = time; onTimeUpdate(time).
onSeekBarChange(time) ==
    /\ PlayerMounted(appState, audioFile)
    /\ time \in SeekBarRange
    /\ currentTime' = time
    /\ elTime' = SyncEffect(SeekTo(time, audioFile), time, audioFile)
    /\ timeupdateQueued' = TRUE
    /\ lastEvent' = Event("scrub", time)
    /\ UNCHANGED aux
    /\ UNCHANGED <<appState, audioFile, transcription, activeTab, pending, liveUrls,
                   nextUrl, isPlaying>>

\* The -5 s button: if (audioRef.current) audioRef.current.currentTime -= 5.
\* Nothing is written to the shared currentTime.
onSkipBack ==
    /\ PlayerMounted(appState, audioFile)
    /\ elTime' = SeekTo(elTime - SkipTicks, audioFile)
    /\ timeupdateQueued' = TRUE
    /\ lastEvent' = Event("skip", 0 - SkipTicks)
    /\ UNCHANGED aux
    /\ UNCHANGED <<appState, audioFile, transcription, currentTime, activeTab, pending,
                   liveUrls, nextUrl, isPlaying>>

\* The +5 s button: if (audioRef.current) audioRef.current.currentTime += 5.
onSkipForward ==
    /\ PlayerMounted(appState, audioFile)
    /\ elTime' = SeekTo(elTime + SkipTicks, audioFile)
    /\ timeupdateQueued' = TRUE
    /\ lastEvent' = Event("skip", SkipTicks)
    /\ UNCHANGED aux
    /\ UNCHANGED <<appState, audioFile, transcription, currentTime, activeTab, pending,
                   liveUrls, nextUrl, isPlaying>>

\* The timeupdate the element dispatches after a seek: handleTimeUpdate calls
\* onTimeUpdate(audioRef.current.currentTime); the effect then finds no discrepancy.
handleTimeUpdate ==
    /\ PlayerMounted(appState, audioFile)
    /\ timeupdateQueued
    /\ currentTime' = elTime
    /\ elTime' = SyncEffect(elTime, elTime, audioFile)
    /\ timeupdateQueued' = Seeks(elTime, elTime)
    /\ lastEvent' = Event("timeupdate", elTime)
    /\ UNCHANGED aux
    /\ UNCHANGED <<appState, audioFile, transcription, activeTab, pending, liveUrls,
                   nextUrl, isPlaying>>

Next ==
    \/ \E file \in Files : handleFileSelected(file)
    \/ \E req \in pending : TranscribeResolved(req)
    \/ \E req \in pending : TranscribeRejected(req)
    \/ handleReset
    \/ onEnterShadowing
    \/ onClose
    \/ \E tab \in Tabs : setActiveTab(tab)
    \/ \E k \in 1..Len(displayedSegments) : onToggleFavorite(k)
    \/ \E k \in 1..Len(displayedSegments) : onSegmentClick(k)
    \/ togglePlay
    \/ PlaybackTick
    \/ onEnded
    \/ \E time \in SeekBarRange : onSeekBarChange(time)
    \/ onSkipBack
    \/ onSkipForward
    \/ handleTimeUpdate

Spec == Init /\ [][Next]_vars

\* The values the state can take.
TypeOK ==
    /\ appState \in AppStates
    /\ activeTab \in Tabs
    /\ audioFile = Null \/ (Len(audioFile) = 1 /\ audioFile[1].name \in Files)
    /\ transcription = Null \/ Len(transcription) = 1
    /\ currentTime \in Nat
    /\ elTime \in Nat \cup {NoElement}
    /\ isPlaying \in BOOLEAN
    /\ timeupdateQueued \in BOOLEAN
    /\ nextUrl \in 1..(MaxUploads + 1)
    /\ liveUrls \subseteq 1..MaxUploads
    /\ \A req \in pending : req.url \in 1..MaxUploads /\ req.file \in Files
    /\ errorMsg = Null \/ Len(errorMsg) = 1

----------------------------------------------------------------------------
(* Session state machine: C1 - C6 *)

\* A pending request is stale when the audio file it was started for is no longer
\* the stored one: a reset happened after it was started.
Stale(req) == audioFile = Null \/ audioFile[1].url # req.url

\* C1: every change of appState is Idle->Processing on a file selection,
\* Processing->Ready on a successful transcription, Processing->Error on a failed
\* one, Ready->Shadowing on entering shadowing, Shadowing->Ready on closing it, or
\* any state->Idle on reset; in particular Error is left only by reset.
C1_OnlyListedTransitions ==
    [][appState' # appState =>
        \/ appState = "IDLE" /\ appState' = "PROCESSING" /\ lastEvent'.op = "select"
        \/ appState = "PROCESSING" /\ appState' = "READY" /\ lastEvent'.op = "resolved"
        \/ appState = "PROCESSING" /\ appState' = "ERROR" /\ lastEvent'.op = "rejected"
        \/ appState = "READY" /\ appState' = "SHADOWING" /\ lastEvent'.op = "enterShadowing"
        \/ appState = "SHADOWING" /\ appState' = "READY" /\ lastEvent'.op = "closeShadowing"
        \/ appState' = "IDLE" /\ lastEvent'.op = "reset"]_vars

\* C2: when a request that was pending at a reset completes, with success or with
\* failure, appState, transcription and audioFile stay as they were.
C2_StaleResponseDiscarded ==
    [][\A req \in pending :
          (req \notin pending' /\ Stale(req)) =>
              /\ appState' = appState
              /\ transcription' = transcription
              /\ audioFile' = audioFile]_vars

\* C3 as stated: at most one transcription request is in flight at any time.
C3_AtMostOneInFlight == Cardinality(pending) <= 1

\* C3 as amended: a request is started only in Idle (never while appState is
\* Processing), every request then still in flight was left behind by a reset, and
\* at most one request in flight belongs to the stored audio file.
C3_UploadOnlyFromIdle ==
    /\ [](Cardinality({req \in pending : ~Stale(req)}) <= 1)
    /\ [][pending' \ pending # {} =>
            /\ appState = "IDLE"
            /\ \A req \in pending : Stale(req)]_vars

\* An upload was started while the request of an earlier upload is still in flight.
C3_Witness ==
    /\ lastEvent.op = "select"
    /\ appState = "PROCESSING"
    /\ Cardinality(pending) = 2
    /\ Cardinality({req \in pending : ~Stale(req)}) = 1

\* C4: at most one URL allocated for an uploaded file is live, it is the URL of the
\* stored audio file, and every URL allocated earlier has been revoked.
C4_OneLiveUrl ==
    /\ Cardinality(liveUrls) <= 1
    /\ liveUrls = (IF audioFile = Null THEN {} ELSE {audioFile[1].url})

\* A second file has been selected after a reset: the first URL is revoked and
\* the second is live.
C4_Witness ==
    /\ lastEvent.op = "select"
    /\ nextUrl = 3
    /\ liveUrls = {2}

\* C5: after a failed transcription call the state is Error (never Ready),
\* audioFile is still set and its URL is live; a reset then clears audioFile and
\* leaves no URL live.
C5_FailureKeepsFile ==
    [][/\ lastEvent'.op = "rejected" =>
            /\ appState' = "ERROR"
            /\ audioFile' # Null
            /\ audioFile'[1].url \in liveUrls'
       /\ lastEvent'.op = "reset" =>
            /\ audioFile' = Null
            /\ liveUrls' = {}]_vars

\* C6: whenever a successful response is applied and appState becomes Ready, the
\* stored transcription is the merged result of that response and currentTime is 0.
C6_ReadyStoresResultAtZero ==
    [][(lastEvent'.op = "resolved" /\ appState # "READY" /\ appState' = "READY") =>
        /\ transcription' = Some(transcribeAudio(lastEvent'.arg.file))
        /\ currentTime' = 0]_vars

----------------------------------------------------------------------------
(* Favorites and highlighting: C7 - C10 *)

\* A segment without its object identity.
Content(segment) ==
    [start |-> segment.start, end |-> segment.end, text |-> segment.text,
     translation |-> segment.translation, idiomatic |-> segment.idiomatic,
     isFavorite |-> segment.isFavorite]

Contents(segments) == [i \in 1..Len(segments) |-> Content(segments[i])]

\* Everything of a segment but its flag and its identity.
Payload(segment) ==
    [start |-> segment.start, end |-> segment.end, text |-> segment.text,
     translation |-> segment.translation, idiomatic |-> segment.idiomatic]

\* The stored segments, << >> while there is no transcription.
StoredSegments == IF transcription = Null THEN << >> ELSE transcription[1].segments

\* t2 is t1 with exactly the flag of position i inverted.
OnlyFlagInverted(t1, t2, i) ==
    /\ Len(t2.segments) = Len(t1.segments)
    /\ t2.language = t1.language
    /\ t2.meta = t1.meta
    /\ \A j \in 1..Len(t1.segments) : j # i => t2.segments[j] = t1.segments[j]
    /\ Payload(t2.segments[i]) = Payload(t1.segments[i])
    /\ Truthy(t2.segments[i].isFavorite) = ~Truthy(t1.segments[i].isFavorite)

\* C7 as stated: a toggle at position i inverts only that position's flag and leaves
\* the rest alone, and a second toggle at i restores the original state.
C7_ToggleTwiceRestores ==
    \A i \in 1..Len(StoredSegments) :
        LET t0 == transcription[1]
            t1 == ToggledTranscription(t0, i)
            t2 == ToggledTranscription(t1, i)
        IN  /\ OnlyFlagInverted(t0, t1, i)
            /\ t2.language = t0.language /\ t2.meta = t0.meta
            /\ Contents(t2.segments) = Contents(t0.segments)

\* C7 as amended: a toggle at position i inverts only that position's flag and
\* leaves the rest alone; a second toggle at i restores every segment's content and
\* the truth value of every flag, and restores the state exactly when the flag at i
\* was present (true or false): an absent flag comes back as false.
C7_ToggleTwiceRestoresTruth ==
    \A i \in 1..Len(StoredSegments) :
        LET t0 == transcription[1]
            t1 == ToggledTranscription(t0, i)
            t2 == ToggledTranscription(t1, i)
        IN  /\ OnlyFlagInverted(t0, t1, i)
            /\ t2.language = t0.language /\ t2.meta = t0.meta
            /\ Len(t2.segments) = Len(t0.segments)
            /\ \A j \in 1..Len(t0.segments) :
                    /\ Payload(t2.segments[j]) = Payload(t0.segments[j])
                    /\ Truthy(t2.segments[j].isFavorite) = Truthy(t0.segments[j].isFavorite)
                    /\ j # i => t2.segments[j] = t0.segments[j]
            /\ t0.segments[i].isFavorite # Undefined =>
                    Contents(t2.segments) = Contents(t0.segments)
            /\ t0.segments[i].isFavorite = Undefined =>
                    t2.segments[i].isFavorite = "false"

\* The user has toggled the same position twice: its flag went from absent over
\* true to false while the other segment was never touched.
C7_Witness ==
    /\ lastEvent.op = "toggleFavorite"
    /\ Len(StoredSegments) = 2
    /\ StoredSegments[lastEvent.arg.idx].isFavorite = "false"
    /\ \E j \in 1..2 : StoredSegments[j].isFavorite = Undefined

\* The positions of the stored segments that are favorites.
FavoritePositions(segments) == {i \in 1..Len(segments) : Truthy(segments[i].isFavorite)}

\* The position in the stored sequence of the k-th item on display.
SourcePosition(tab, segments, k) ==
    IF tab = "favorites"
    THEN CHOOSE i \in FavoritePositions(segments) :
            Cardinality({j \in FavoritePositions(segments) : j <= i}) = k
    ELSE k

\* C8: a click on the favorite icon of the k-th displayed item, in the original or
\* in the favorites view, inverts exactly the flag of that item's own position in
\* the stored sequence, also when segments have equal text.
C8_ToggleHitsSourcePosition ==
    [][lastEvent'.op = "toggleFavorite" =>
        LET src == SourcePosition(activeTab, StoredSegments, lastEvent'.arg.k) IN
        /\ lastEvent'.arg.idx = src
        /\ OnlyFlagInverted(transcription[1], transcription'[1], src)]_vars

\* In the favorites view, with two favorites of equal text on display, the user
\* has toggled the second one: position 2 lost its flag, position 1 kept it.
C8_Witness ==
    /\ lastEvent.op = "toggleFavorite"
    /\ lastEvent.arg.k = 2 /\ lastEvent.arg.idx = 2
    /\ activeTab = "favorites"
    /\ Len(StoredSegments) = 2
    /\ StoredSegments[1].text = StoredSegments[2].text
    /\ StoredSegments[1].isFavorite = "true"
    /\ StoredSegments[2].isFavorite = "false"

\* C9: in the favorites view the list on display is exactly the stored segments
\* whose flag is true now, in their stored order; it is empty for an empty list.
C9_FavoritesViewIsFresh ==
    (activeTab = "favorites" /\ transcription # Null) =>
        /\ Len(displayedSegments) = Cardinality(FavoritePositions(StoredSegments))
        /\ \A k \in 1..Len(displayedSegments) :
                displayedSegments[k] =
                    StoredSegments[SourcePosition("favorites", StoredSegments, k)]
        /\ Len(StoredSegments) = 0 => displayedSegments = << >>

\* In the favorites view the user removed the first of two favorites: the view
\* shows the one that is left, the second stored segment.
C9_Witness ==
    /\ lastEvent.op = "toggleFavorite"
    /\ activeTab = "favorites"
    /\ Len(StoredSegments) = 2
    /\ StoredSegments[1].isFavorite = "false"
    /\ StoredSegments[2].isFavorite = "true"
    /\ Len(displayedSegments) = 1

\* The times a highlight is computed for: every position of the longest file
\* and one tick beyond.
TimeRange == 0..(Duration("talk.mp3") + 1)

\* No two of the segments share a point in time.
NonOverlapping(segments) ==
    \A i, j \in 1..Len(segments) :
        i # j => (segments[i].start..(segments[i].end - 1))
                    \cap (segments[j].start..(segments[j].end - 1)) = {}

\* C10: a displayed segment is active at a time iff the time lies in [start, end):
\* active one tick below end, not active at end; and when the displayed segments
\* do not overlap, at most one of them is active at any time.
C10_ActiveIsHalfOpen ==
    /\ \A t \in TimeRange \cup {currentTime} : \A k \in 1..Len(displayedSegments) :
            LET seg == displayedSegments[k] IN
            /\ isActive(t, seg) <=> t \in seg.start..(seg.end - 1)
            /\ seg.start < seg.end => isActive(seg.end - 1, seg) /\ ~isActive(seg.end, seg)
    /\ NonOverlapping(displayedSegments) =>
            \A t \in TimeRange \cup {currentTime} :
                Cardinality({k \in 1..Len(displayedSegments) :
                                isActive(t, displayedSegments[k])}) <= 1

\* The transcript is shown with currentTime exactly at the end of the first
\* segment, where the second begins: only the second is highlighted.
C10_Witness ==
    /\ TranscriptViewShown
    /\ Len(displayedSegments) = 2
    /\ currentTime = displayedSegments[1].end
    /\ displayedSegments[1].start < displayedSegments[1].end
    /\ ~isActive(currentTime, displayedSegments[1])
    /\ isActive(currentTime, displayedSegments[2])

----------------------------------------------------------------------------
(* Playback synchronisation: C20 *)

\* The time the user asked for in the step: the start of the segment clicked, or
\* the value the scrubber was dragged to.
RequestedTime ==
    IF lastEvent'.op = "segmentClick" THEN displayedSegments[lastEvent'.arg].start
    ELSE lastEvent'.arg

\* C20: after a click on a segment that starts at t, or a drag of the scrubber to t,
\* currentTime is t and the element's position is within 0.5 s of t; and if the
\* element's position was more than 0.5 s away from t, it is exactly t.
C20_SeekFollowsUser ==
    [][lastEvent'.op \in {"segmentClick", "scrub"} =>
        /\ currentTime' = RequestedTime
        /\ Abs(elTime' - RequestedTime) <= 1
        /\ Abs(elTime - RequestedTime) > 1 => elTime' = RequestedTime]_vars

----------------------------------------------------------------------------
(* Playback ordering: C21 *)

\* The step stays within one playback session: the same element plays the same file.
SameSession ==
    /\ PlayerMounted(appState, audioFile)
    /\ PlayerMounted(appState', audioFile')
    /\ audioFile' = audioFile

\* The element's position moves backward, or forward by more than one playback tick.
Jumps == elTime' < elTime \/ elTime' > elTime + 1

\* C21: within one playback session every backward or discontinuous change of the
\* element's position happens in a scrub or a segment click, and of two time updates
\* the element pushes into currentTime one after the other while playing, the second
\* value is greater than the first.
C21_JumpsOnlyFromSeeks ==
    [][SameSession =>
        /\ Jumps => lastEvent'.op \in {"scrub", "segmentClick"}
        /\ (lastEvent.op = "timeupdate" /\ lastEvent'.op = "timeupdate" /\ isPlaying)
              => lastEvent'.arg > lastEvent.arg]_vars

----------------------------------------------------------------------------
(* No seek loop: C30 *)

----------------------------------------------------------------------------
(* geminiService.ts: the segment merger on its own *)

\* The raw segment lists the merger is run on have at most this many segments.
MaxSegments == 3

\* The merger is run at most this many times in a row, each run after the first
\* on the output of the run before.
MaxMergeRuns == 2

\* Durations of a raw segment, in ticks: 0.5 s and exactly 2.0 s.
SegmentDurations == {1, 4}

\* Texts of a raw segment: the empty string, one word, three words, four words.
SegmentTexts ==
    { << >>,
      <<"Hi">>,
      <<"so", " ", "ok", " ", "now">>,
      <<"welcome", " ", "to", " ", "the", " ", "show">> }

\* The idiomatic rephrasing of a raw segment: "" (falsy) or a phrase.
SegmentIdioms == { << >>, <<"idiom">> }

\* Where the first raw segment starts, in ticks.
FirstStarts == {0, 3}

Shapes == [duration : SegmentDurations, text : SegmentTexts, idiomatic : SegmentIdioms]

\* The segments of the given shapes, one after the other from `start` on.
RECURSIVE Contiguous(_, _)
Contiguous(shapes, start) ==
    IF shapes = << >> THEN << >>
    ELSE << RawSeg(start, start + Head(shapes).duration, Head(shapes).text,
                   <<"zh">>, Head(shapes).idiomatic) >>
         \o Contiguous(Tail(shapes), start + Head(shapes).duration)

\* [{0,1,"Hi"}, {1,1.5,"there"}, {1.5,4,"welcome to the show today"}]
CascadeExample ==
    << RawSeg(0, 2, <<"Hi">>, <<"zh1">>, << >>),
       RawSeg(2, 3, <<"there">>, <<"zh2">>, << >>),
       RawSeg(3, 8, <<"welcome", " ", "to", " ", "the", " ", "show", " ", "today">>,
              <<"zh3">>, << >>) >>

\* The segments of the given shapes from `start` on, with a pause of one tick
\* between a segment and the next.
RECURSIVE Spaced(_, _)
Spaced(shapes, start) ==
    IF shapes = << >> THEN << >>
    ELSE << RawSeg(start, start + Head(shapes).duration, Head(shapes).text,
                   <<"zh">>, Head(shapes).idiomatic) >>
         \o Spaced(Tail(shapes), start + Head(shapes).duration + 1)

\* The shapes without an idiomatic rephrasing.
PlainShapes == {shape \in Shapes : shape.idiomatic = << >>}

\* The inputs the merger is run on.
MergerInputs ==
    { Contiguous(shapes, start) :
        shapes \in UNION { [1..n -> Shapes] : n \in 0..MaxSegments },
        start \in FirstStarts }
    \cup { Spaced(shapes, 0) :
              shapes \in UNION { [1..n -> PlainShapes] : n \in 2..MaxSegments } }
    \cup { CascadeExample }

MergeInit ==
    /\ AppIdle
    /\ ClientIdle
    /\ ViewsIdle
    /\ rawSegments \in MergerInputs
    /\ mergedSegments = Null
    /\ mergeRuns = 0

\* parsed.segments = mergeShortSegments(parsed.segments)
RunMerger ==
    /\ mergedSegments = Null
    /\ mergedSegments' = Some(mergeShortSegments(rawSegments))
    /\ mergeRuns' = 1
    /\ UNCHANGED rawSegments
    /\ UNCHANGED app
    /\ UNCHANGED client
    /\ UNCHANGED views

\* The merger applied to what it returned.
RunMergerAgain ==
    /\ mergedSegments # Null
    /\ mergeRuns < MaxMergeRuns
    /\ mergedSegments' = Some(mergeShortSegments(mergedSegments[1]))
    /\ mergeRuns' = mergeRuns + 1
    /\ UNCHANGED rawSegments
    /\ UNCHANGED app
    /\ UNCHANGED client
    /\ UNCHANGED views

MergeNext ==
    \/ RunMerger
    \/ RunMergerAgain

SpecMerge == MergeInit /\ [][MergeNext]_vars

----------------------------------------------------------------------------
(* Segment merger: C11 - C15 *)

\* What the latest run of the merger returned, << >> before the first run.
MergerOutput == IF mergedSegments = Null THEN << >> ELSE mergedSegments[1]

\* The text fields of the segments, in order, joined with single spaces.
RECURSIVE JoinTexts(_)
JoinTexts(segments) ==
    IF Len(segments) = 0 THEN << >>
    ELSE IF Len(segments) = 1 THEN segments[1].text
    ELSE segments[1].text \o <<" ">> \o JoinTexts(Tail(segments))

\* A segment below the merge threshold: fewer than 4 whitespace-delimited words
\* and shorter than 2.0 s.
BelowThreshold(segment) ==
    /\ SplitLength(segment.text) < 4
    /\ segment.end - segment.start < 4

\* C11: for every non-empty input, the texts of the merger's output joined in order
\* with single spaces are the texts of the input joined in order with single spaces.
C11_TextPreserved ==
    (mergedSegments # Null /\ rawSegments # << >>) =>
        JoinTexts(MergerOutput) = JoinTexts(rawSegments)

\* Three segments with three different texts went in and the first two came out as one.
C11_Witness ==
    /\ mergeRuns = 1
    /\ Len(rawSegments) = 3
    /\ Len(MergerOutput) = 2
    /\ Cardinality({rawSegments[i].text : i \in 1..3}) = 3
    /\ MergerOutput[2] = rawSegments[3]

\* C12: for every non-empty input the output has between 1 and Len(input) segments,
\* starts where the input starts and ends where the input ends.
C12_SpanPreserved ==
    (mergedSegments # Null /\ rawSegments # << >>) =>
        /\ Len(MergerOutput) >= 1
        /\ Len(MergerOutput) <= Len(rawSegments)
        /\ MergerOutput[1].start = rawSegments[1].start
        /\ MergerOutput[Len(MergerOutput)].end = rawSegments[Len(rawSegments)].end

\* An input that does not start at 0 lost a segment to a merge, the last one
\* being merged into its predecessor.
C12_Witness ==
    /\ mergeRuns = 1
    /\ Len(rawSegments) = 3
    /\ rawSegments[1].start # 0
    /\ Len(MergerOutput) = 2
    /\ MergerOutput[1] = rawSegments[1]
    /\ MergerOutput[2].start = rawSegments[2].start

\* C13: when no segment of the input is below the merge threshold, the merger
\* returns the input unchanged, on the first run and on a run on its own output.
C13_NoShortIsFixpoint ==
    (mergedSegments # Null /\ \A i \in 1..Len(rawSegments) : ~BelowThreshold(rawSegments[i]))
        => MergerOutput = rawSegments

\* The merger has run twice on an input of three segments that are long in words
\* or in duration, one of them short in words and lasting exactly 2.0 s.
C13_Witness ==
    /\ mergeRuns = 2
    /\ Len(rawSegments) = 3
    /\ \A i \in 1..3 : ~BelowThreshold(rawSegments[i])
    /\ \E i \in 1..3 : /\ SplitLength(rawSegments[i].text) = 1
                       /\ rawSegments[i].end - rawSegments[i].start = 4
    /\ \E i \in 1..3 : /\ SplitLength(rawSegments[i].text) = 4
                       /\ rawSegments[i].end - rawSegments[i].start = 1

C15_EmptyAndSingle ==
    mergeRuns = 1 =>
        /\ Len(rawSegments) = 0 => MergerOutput = << >>
        /\ Len(rawSegments) = 1 => MergerOutput = rawSegments

\* The merger has run on a single segment that is below the merge threshold.
C15_Witness ==
    /\ mergeRuns = 1
    /\ Len(rawSegments) = 1
    /\ BelowThreshold(rawSegments[1])
    /\ rawSegments[1].idiomatic # << >>
    /\ MergerOutput = rawSegments

----------------------------------------------------------------------------
(* Segment merger: C29 *)

\* The whitespace-delimited words of a text: its tokens that are not whitespace.
WordCount(text) == Cardinality({i \in 1..Len(text) : text[i] # " "})

\* The fold as the rule states it: the accumulator takes in its successor iff it has
\* fewer than 4 words and lasts less than 2.0 s, and is committed as it is otherwise.
RECURSIVE FoldByWords(_, _, _, _)
FoldByWords(input, i, accumulator, committed) ==
    IF i > Len(input) THEN Append(committed, accumulator)
    ELSE IF WordCount(accumulator.text) < 4 /\ accumulator.end - accumulator.start < 4
         THEN FoldByWords(input, i + 1, MergeInto(accumulator, input[i]), committed)
         ELSE FoldByWords(input, i + 1, input[i], Append(committed, accumulator))

\* C29: the merger's output is the one obtained when every accumulator is merged
\* with its successor iff it has fewer than 4 whitespace-delimited words and lasts
\* less than 2.0 s, accumulators of exactly 4 words or of exactly 2.0 s are
\* committed, and committed segments are left as they are.
C29_MergeIffShortInWordsAndTime ==
    (mergeRuns = 1 /\ rawSegments # << >>) =>
        MergerOutput = FoldByWords(rawSegments, 2, rawSegments[1], << >>)

----------------------------------------------------------------------------
(* geminiService.ts: the service client on its own *)

\* A settled promise: fulfilled with a value, or rejected with an error.
Ok(v) == [ok |-> TRUE, value |-> Some(v), error |-> ""]
Err(e) == [ok |-> FALSE, value |-> Null, error |-> e]

\* Texts a provider answers with. "{json}" is a well-formed JSON document, "oops"
\* is text that is no JSON, "FENCE" is the markdown fence marker of three
\* backquotes and "FENCEjson" is that marker followed by the word json.
ReplyTexts ==
    { << >>,
      <<"{json}">>,
      <<"FENCEjson", " ", "{json}", " ", "FENCE">>,
      <<"FENCE", " ", "{json}", " ", "FENCE">>,
      <<"FENCEjson", " ", "{json}", " ", "FENCE", " ">>,
      <<"oops">>,
      <<"FENCEjson", " ", "oops", " ", "FENCE">> }

\* What the document "{json}" denotes in an answer to each function.
ScoreDoc == [score |-> "85", feedback |-> "clear", accuracy |-> "good"]
GeminiDefinition == [word |-> "show", definition |-> "from gemini"]
DeepSeekDefinition == [word |-> "show", definition |-> "from deepseek"]
TranscriptionDocs == { RawResponse(file) : file \in Files }

\* What models.generateContent settles to: rejected, or a response with a text
\* whose JSON document, if it is one, denotes doc.
GeminiReplies(docs) ==
    [rejected : {TRUE}, text : {<< >>}, doc : docs]
    \cup [rejected : {FALSE}, text : ReplyTexts, doc : docs]

\* What generateContent settles to for a speech request: rejected, or a response
\* with or without inline audio data.
SpeechReplies == [rejected : BOOLEAN, audioData : {Null, Some("pcm")}]

\* What the fetch of callDeepSeek settles to: rejected (network), a response that
\* is not ok, or an ok response with message content text.
DeepSeekReplies ==
    [status : {"rejected", "not ok"}, text : {<< >>}]
    \cup [status : {"ok"}, text : ReplyTexts]

\* const getAi = () => { if (!apiKey) throw new Error("API Key is missing. ...") ... }
getAi(environment) ==
    IF ~environment.API_KEY THEN Err("API Key is missing") ELSE Ok("GoogleGenAI")

\* The text without the whitespace at its beginning.
RECURSIVE TrimStart(_)
TrimStart(text) ==
    IF text # << >> /\ Head(text) = " " THEN TrimStart(Tail(text)) ELSE text

\* The text without the whitespace at its end.
RECURSIVE TrimEnd(_)
TrimEnd(text) ==
    IF text # << >> /\ text[Len(text)] = " "
    THEN TrimEnd(SubSeq(text, 1, Len(text) - 1)) ELSE text

\* JSON.parse(text): whitespace around the document is allowed, anything else
\* throws a SyntaxError.
JSONparse(text, doc) ==
    IF TrimEnd(TrimStart(text)) = <<"{json}">> THEN Ok(doc) ELSE Err("SyntaxError")

\* text.replace(/^```json\s*/, '')
StripLeadingFence(text) ==
    IF text # << >> /\ Head(text) = "FENCEjson" THEN TrimStart(Tail(text)) ELSE text

\* text.replace(/\s*```$/, '')
StripTrailingFence(text) ==
    IF text # << >> /\ text[Len(text)] = "FENCE"
    THEN TrimEnd(SubSeq(text, 1, Len(text) - 1)) ELSE text

\* cleanAndParseJson: strip the fence, parse; any failure is rethrown as
\* "Failed to parse AI response".
cleanAndParseJson(text, doc) ==
    LET cleanText == StripTrailingFence(StripLeadingFence(text)) IN
    IF JSONparse(cleanText, doc).ok THEN JSONparse(cleanText, doc)
    ELSE Err("Failed to parse AI response")

\* fileToBase64: the FileReader loads the file or fails.
fileToBase64(readOk) == IF readOk THEN Ok("base64") ELSE Err("FileReader error")

\* How a call of an exported function settles, and how many requests it sent to
\* the secondary provider.
Settled(result, deepSeekCalls) == [result |-> result, deepSeekCalls |-> deepSeekCalls]

\* Mutant: the parsed response is returned as it came, without the merger.
transcribeAudioSettled_Unmerged(environment, readOk, reply) ==
    IF ~fileToBase64(readOk).ok THEN Settled(fileToBase64(readOk), 0)
    ELSE IF ~getAi(environment).ok THEN Settled(getAi(environment), 0)
    ELSE IF reply.rejected THEN Settled(Err("Gemini API error"), 0)
    ELSE IF reply.text # << >>
         THEN Settled(JSONparse(reply.text, reply.doc), 0)
         ELSE Settled(Err("Empty response from Gemini"), 0)

\* transcribeAudio: read the file, call the primary provider, JSON.parse the text,
\* merge the segments; every error is logged and rethrown.
transcribeAudioSettled(environment, readOk, reply) ==
    IF ~fileToBase64(readOk).ok THEN Settled(fileToBase64(readOk), 0)
    ELSE IF ~getAi(environment).ok THEN Settled(getAi(environment), 0)
    ELSE IF reply.rejected THEN Settled(Err("Gemini API error"), 0)
    ELSE IF reply.text # << >>
         THEN IF JSONparse(reply.text, reply.doc).ok
              THEN Settled(Ok([reply.doc EXCEPT
                                  !.segments = mergeShortSegments(reply.doc.segments)]), 0)
              ELSE Settled(JSONparse(reply.text, reply.doc), 0)
         ELSE Settled(Err("Empty response from Gemini"), 0)

\* generateSpeech: the inline audio data of the first candidate, or an error.
generateSpeech(environment, reply) ==
    IF ~getAi(environment).ok THEN Settled(getAi(environment), 0)
    ELSE IF reply.rejected THEN Settled(Err("Gemini API error"), 0)
    ELSE IF reply.audioData # Null THEN Settled(Ok(reply.audioData[1]), 0)
    ELSE Settled(Err("No audio data returned"), 0)

\* scorePronunciation: read the recording, call the primary provider, JSON.parse.
scorePronunciation(environment, readOk, reply) ==
    IF ~fileToBase64(readOk).ok THEN Settled(fileToBase64(readOk), 0)
    ELSE IF ~getAi(environment).ok THEN Settled(getAi(environment), 0)
    ELSE IF reply.rejected THEN Settled(Err("Gemini API error"), 0)
    ELSE IF reply.text # << >> THEN Settled(JSONparse(reply.text, reply.doc), 0)
    ELSE Settled(Err("Scoring failed"), 0)

\* callDeepSeek: the message content of the answer, and the number of fetches.
callDeepSeek(environment, dsReply) ==
    IF ~environment.DEEPSEEK_API_KEY THEN Settled(Err("DeepSeek API Key is missing"), 0)
    ELSE IF dsReply.status = "rejected" THEN Settled(Err("DeepSeek fetch failed"), 1)
    ELSE IF dsReply.status = "not ok" THEN Settled(Err("DeepSeek API Error"), 1)
    ELSE Settled(Ok(dsReply.text), 1)

\* The try block of getWordDefinition: getAi(), generateContent, JSON.parse(response.text!).
GeminiDefinitionResult(environment, reply) ==
    IF ~getAi(environment).ok THEN getAi(environment)
    ELSE IF reply.rejected THEN Err("Gemini API error")
    ELSE JSONparse(reply.text, reply.doc)

\* The fallback of getWordDefinition: callDeepSeek, cleanAndParseJson; its error
\* is rethrown.
DeepSeekDefinitionResult(environment, dsReply) ==
    LET answer == callDeepSeek(environment, dsReply) IN
    Settled(IF answer.result.ok
            THEN cleanAndParseJson(answer.result.value[1], DeepSeekDefinition)
            ELSE answer.result,
            answer.deepSeekCalls)

\* Mutant: the fallback is tried whether or not DEEPSEEK_API_KEY is set.
getWordDefinition_AlwaysFallback(environment, reply, dsReply) ==
    IF GeminiDefinitionResult(environment, reply).ok
    THEN Settled(GeminiDefinitionResult(environment, reply), 0)
    ELSE DeepSeekDefinitionResult(environment, dsReply)

\* getWordDefinition: the primary provider first; when that throws and
\* DEEPSEEK_API_KEY is set, the secondary provider, whose error is then the one
\* thrown; without the key the primary error is thrown.
getWordDefinition(environment, reply, dsReply) ==
    IF GeminiDefinitionResult(environment, reply).ok
    THEN Settled(GeminiDefinitionResult(environment, reply), 0)
    ELSE IF environment.DEEPSEEK_API_KEY
         THEN DeepSeekDefinitionResult(environment, dsReply)
         ELSE Settled(GeminiDefinitionResult(environment, reply), 0)

ClientInit ==
    /\ AppIdle
    /\ MergerIdle
    /\ ViewsIdle
    /\ env \in [API_KEY : BOOLEAN, DEEPSEEK_API_KEY : BOOLEAN]
    /\ request = Null
    /\ outcome = Null

\* A call of transcribeAudio(file) from start to settlement.
CallTranscribeAudio ==
    \E readOk \in BOOLEAN, reply \in GeminiReplies(TranscriptionDocs) :
        /\ request' = Some([op |-> "transcribeAudio", readOk |-> readOk, reply |-> reply])
        /\ outcome' = Some(transcribeAudioSettled(env, readOk, reply))
        /\ UNCHANGED <<env, app, merger, views>>

\* A call of generateSpeech(text) from start to settlement.
CallGenerateSpeech ==
    \E reply \in SpeechReplies :
        /\ request' = Some([op |-> "generateSpeech", reply |-> reply])
        /\ outcome' = Some(generateSpeech(env, reply))
        /\ UNCHANGED <<env, app, merger, views>>

\* A call of scorePronunciation(userAudio, referenceText) from start to settlement.
CallScorePronunciation ==
    \E readOk \in BOOLEAN, reply \in GeminiReplies({ScoreDoc}) :
        /\ request' = Some([op |-> "scorePronunciation", readOk |-> readOk, reply |-> reply])
        /\ outcome' = Some(scorePronunciation(env, readOk, reply))
        /\ UNCHANGED <<env, app, merger, views>>

\* A call of getWordDefinition(word, contextSentence) from start to settlement.
CallGetWordDefinition ==
    \E reply \in GeminiReplies({GeminiDefinition}), dsReply \in DeepSeekReplies :
        /\ request' = Some([op |-> "getWordDefinition", reply |-> reply, dsReply |-> dsReply])
        /\ outcome' = Some(getWordDefinition(env, reply, dsReply))
        /\ UNCHANGED <<env, app, merger, views>>

ClientNext ==
    \/ CallTranscribeAudio
    \/ CallGenerateSpeech
    \/ CallScorePronunciation
    \/ CallGetWordDefinition

SpecClient == ClientInit /\ [][ClientNext]_vars

----------------------------------------------------------------------------
(* Service client: C16 - C19 *)

\* The function called last.
CalledOp == IF request = Null THEN "none" ELSE request[1].op

\* The text is one JSON document, with nothing but whitespace around it.
IsJson(text) ==
    /\ Cardinality({i \in 1..Len(text) : text[i] = "{json}"}) = 1
    /\ \A i \in 1..Len(text) : text[i] \in {"{json}", " "}

\* The text is a JSON document wrapped in a leading fence marker with the word
\* json and a trailing fence marker, nothing before or after them.
IsFencedJson(text) ==
    /\ Len(text) >= 3
    /\ text[1] = "FENCEjson"
    /\ text[Len(text)] = "FENCE"
    /\ IsJson(SubSeq(text, 2, Len(text) - 1))

\* The call got an answer with a text from the primary provider: the file was
\* read, the credential is set and the request was not rejected.
PrimaryAnswered ==
    /\ CalledOp \in {"transcribeAudio", "scorePronunciation", "getWordDefinition"}
    /\ env.API_KEY
    /\ CalledOp # "getWordDefinition" => request[1].readOk
    /\ ~request[1].reply.rejected

\* The primary provider's part of getWordDefinition failed.
PrimaryDefinitionFailed ==
    \/ ~env.API_KEY
    \/ request[1].reply.rejected
    \/ ~IsJson(request[1].reply.text)

\* The error that failure threw.
PrimaryDefinitionError ==
    IF ~env.API_KEY THEN "API Key is missing"
    ELSE IF request[1].reply.rejected THEN "Gemini API error"
    ELSE "SyntaxError"

\* The errors of the secondary provider's part.
SecondaryDefinitionErrors ==
    {"DeepSeek fetch failed", "DeepSeek API Error", "Failed to parse AI response"}

\* C16: transcribeAudio settles with a response whose segments are the merger's
\* output for the raw segments, or with an error; it fails when the request is
\* rejected, when the response text is empty and when the text is no JSON, and it
\* sends nothing to the secondary provider.
C16_TranscribeMergesOrFails ==
    CalledOp = "transcribeAudio" =>
        LET reply == request[1].reply
            result == outcome[1].result
        IN  /\ outcome[1].deepSeekCalls = 0
            /\ result.ok =>
                /\ result.value # Null
                /\ result.value[1].segments = mergeShortSegments(reply.doc.segments)
                /\ result.value[1].language = reply.doc.language
                /\ result.value[1].meta = reply.doc.meta
            /\ ~result.ok => result.value = Null /\ result.error # ""
            /\ (reply.rejected \/ reply.text = << >> \/ ~IsJson(reply.text)) => ~result.ok
            /\ (PrimaryAnswered /\ IsJson(reply.text)) => result.ok

\* transcribeAudio returned a response in which the merger made two segments of
\* the three raw ones.
C16_Witness ==
    /\ CalledOp = "transcribeAudio"
    /\ outcome[1].result.ok
    /\ Len(request[1].reply.doc.segments) = 3
    /\ Len(outcome[1].result.value[1].segments) = 2

\* C17 as stated: getWordDefinition asks the primary provider first; when that
\* fails it asks the secondary provider exactly once iff DEEPSEEK_API_KEY is set;
\* and whenever the call then fails, the error thrown is the primary one.
C17_FallbackSurfacesPrimaryError ==
    CalledOp = "getWordDefinition" =>
        LET result == outcome[1].result IN
        /\ ~PrimaryDefinitionFailed =>
                outcome[1].deepSeekCalls = 0 /\ result = Ok(GeminiDefinition)
        /\ PrimaryDefinitionFailed =>
                outcome[1].deepSeekCalls = (IF env.DEEPSEEK_API_KEY THEN 1 ELSE 0)
        /\ (PrimaryDefinitionFailed /\ ~result.ok) =>
                result.error = PrimaryDefinitionError

\* C17 as amended: getWordDefinition asks the primary provider first; when that
\* fails it asks the secondary provider exactly once iff DEEPSEEK_API_KEY is set;
\* without the key the error thrown is the primary one, and when the secondary
\* provider fails too the error thrown is the secondary one.
C17_FallbackSurfacesLastError ==
    CalledOp = "getWordDefinition" =>
        LET result == outcome[1].result IN
        /\ ~PrimaryDefinitionFailed =>
                outcome[1].deepSeekCalls = 0 /\ result = Ok(GeminiDefinition)
        /\ PrimaryDefinitionFailed =>
                outcome[1].deepSeekCalls = (IF env.DEEPSEEK_API_KEY THEN 1 ELSE 0)
        /\ (PrimaryDefinitionFailed /\ ~env.DEEPSEEK_API_KEY) =>
                ~result.ok /\ result.error = PrimaryDefinitionError
        /\ (PrimaryDefinitionFailed /\ env.DEEPSEEK_API_KEY /\ ~result.ok) =>
                result.error \in SecondaryDefinitionErrors
        /\ (PrimaryDefinitionFailed /\ env.DEEPSEEK_API_KEY /\ result.ok) =>
                result = Ok(DeepSeekDefinition)

\* Both providers failed: the primary request was rejected, the secondary provider
\* was asked once and answered with a status that is not ok.
C17_Witness ==
    /\ CalledOp = "getWordDefinition"
    /\ env.API_KEY /\ env.DEEPSEEK_API_KEY
    /\ request[1].reply.rejected
    /\ request[1].dsReply.status = "not ok"
    /\ outcome[1].deepSeekCalls = 1
    /\ outcome[1].result.error = "DeepSeek API Error"

\* How the last call settles with the given credentials and the same answers.
SettledUnder(environment) ==
    CASE CalledOp = "transcribeAudio" ->
            transcribeAudioSettled(environment, request[1].readOk, request[1].reply)
      [] CalledOp = "generateSpeech" ->
            generateSpeech(environment, request[1].reply)
      [] CalledOp = "scorePronunciation" ->
            scorePronunciation(environment, request[1].readOk, request[1].reply)
      [] CalledOp = "getWordDefinition" ->
            getWordDefinition(environment, request[1].reply, request[1].dsReply)

\* C18: without API_KEY every function that reaches its first use of the client
\* fails with the configuration error and returns nothing; and whether
\* DEEPSEEK_API_KEY is set makes a difference to getWordDefinition only.
C18_MissingKeyIsFatal ==
    CalledOp # "none" =>
        /\ ( /\ ~env.API_KEY
             /\ CalledOp \in {"transcribeAudio", "scorePronunciation"} => request[1].readOk )
           => /\ ~outcome[1].result.ok
              /\ outcome[1].result.error = "API Key is missing"
        /\ CalledOp # "getWordDefinition" =>
              SettledUnder([env EXCEPT !.DEEPSEEK_API_KEY = TRUE])
                = SettledUnder([env EXCEPT !.DEEPSEEK_API_KEY = FALSE])

\* C19: in transcribeAudio, scorePronunciation and getWordDefinition, on either
\* provider, an answer that is a JSON document wrapped in a fence is parsed and
\* its document returned; and an answer that is neither a JSON document nor a
\* fenced one makes transcribeAudio and scorePronunciation fail.
C19_FencedJsonIsParsed ==
    /\ (PrimaryAnswered /\ IsFencedJson(request[1].reply.text)) =>
            outcome[1].result = (IF CalledOp = "transcribeAudio"
                                 THEN transcribeAudioSettled(env, TRUE,
                                        [request[1].reply EXCEPT !.text = <<"{json}">>]).result
                                 ELSE Ok(request[1].reply.doc))
    /\ ( /\ CalledOp = "getWordDefinition"
         /\ PrimaryDefinitionFailed /\ ~IsFencedJson(request[1].reply.text)
         /\ env.DEEPSEEK_API_KEY
         /\ request[1].dsReply.status = "ok"
         /\ IsFencedJson(request[1].dsReply.text) )
       => outcome[1].result = Ok(DeepSeekDefinition)
    /\ ( /\ PrimaryAnswered /\ CalledOp # "getWordDefinition"
         /\ ~IsJson(request[1].reply.text) /\ ~IsFencedJson(request[1].reply.text) )
       => ~outcome[1].result.ok

----------------------------------------------------------------------------
(* FileUpload.tsx: the file input on its own *)

\* A file name and a MIME type are sequences of characters.
UpperCaseLetters ==
    <<"A", "B", "C", "D", "E", "F", "G", "H", "I", "J", "K", "L", "M",
      "N", "O", "P", "Q", "R", "S", "T", "U", "V", "W", "X", "Y", "Z">>

LowerCaseLetters ==
    <<"a", "b", "c", "d", "e", "f", "g", "h", "i", "j", "k", "l", "m",
      "n", "o", "p", "q", "r", "s", "t", "u", "v", "w", "x", "y", "z">>

\* Mutant: the name is tested as it is.
toLowerCase_AsIs(name) == name

\* file.name.toLowerCase()
toLowerCase(name) ==
    [i \in 1..Len(name) |->
        IF \E k \in 1..26 : UpperCaseLetters[k] = name[i]
        THEN LowerCaseLetters[CHOOSE k \in 1..26 : UpperCaseLetters[k] = name[i]]
        ELSE name[i]]

\* String.prototype.startsWith
startsWith(text, prefix) ==
    Len(prefix) <= Len(text) /\ SubSeq(text, 1, Len(prefix)) = prefix

\* A regular expression /suffix$/ matches.
endsWith(text, suffix) ==
    Len(suffix) <= Len(text)
        /\ SubSeq(text, Len(text) - Len(suffix) + 1, Len(text)) = suffix

\* ['audio/', 'application/ogg', 'video/mp4', 'video/webm']
validAudioTypes ==
    { <<"a", "u", "d", "i", "o", "/">>,
      <<"a", "p", "p", "l", "i", "c", "a", "t", "i", "o", "n", "/", "o", "g", "g">>,
      <<"v", "i", "d", "e", "o", "/", "m", "p", "4">>,
      <<"v", "i", "d", "e", "o", "/", "w", "e", "b", "m">> }

\* The alternatives of /\.(mp3|wav|flac|m4a|aac|ogg|apk\.1)$/, each with its dot.
AudioSuffixes ==
    { <<".", "m", "p", "3">>, <<".", "w", "a", "v">>, <<".", "f", "l", "a", "c">>,
      <<".", "m", "4", "a">>, <<".", "a", "a", "c">>, <<".", "o", "g", "g">>,
      <<".", "a", "p", "k", ".", "1">> }

\* validAudioTypes.some(type => file.type.startsWith(type))
isAudioByMime(type) == \E prefix \in validAudioTypes : startsWith(type, prefix)

\* /\.(mp3|wav|flac|m4a|aac|ogg|apk\.1)$/.test(fileName)
isAudioByName(fileName) == \E suffix \in AudioSuffixes : endsWith(fileName, suffix)

\* The names of the files the user picks: a.mp3, A.MP3, a.txt, a.apk.1, mp3, a.mp3.txt.
PickedNames ==
    { <<"a", ".", "m", "p", "3">>,
      <<"A", ".", "M", "P", "3">>,
      <<"a", ".", "t", "x", "t">>,
      <<"a", ".", "a", "p", "k", ".", "1">>,
      <<"m", "p", "3">>,
      <<"a", ".", "m", "p", "3", ".", "t", "x", "t">> }

\* Their MIME types as the browser reports them: unknown (""), audio/x, video/mp4,
\* video/x, application/ogg, text/x.
PickedTypes ==
    { << >>,
      <<"a", "u", "d", "i", "o", "/", "x">>,
      <<"v", "i", "d", "e", "o", "/", "m", "p", "4">>,
      <<"v", "i", "d", "e", "o", "/", "x">>,
      <<"a", "p", "p", "l", "i", "c", "a", "t", "i", "o", "n", "/", "o", "g", "g">>,
      <<"t", "e", "x", "t", "/", "x">> }

\* event.target.files?.[0]: a file of some name, type and content, or none when the
\* dialog was cancelled.
PickedFiles ==
    { Some([name |-> name, type |-> type, content |-> file]) :
        name \in PickedNames, type \in PickedTypes, file \in Files }
    \cup { Null }

\* "Please select a valid audio file (MP3, WAV, FLAC, M4A)."
InvalidFileMessage == Some("Please select a valid audio file (MP3, WAV, FLAC, M4A).")

\* handleInputChange: the onChange handler of the file input.
handleInputChange(picked) ==
    /\ FileUploadShown /\ ~InputDisabled
    /\ lastEvent' = Event("inputChange", picked)
    /\ UNCHANGED <<merger, client, practice>>
    /\ IF picked # Null
          /\ (isAudioByMime(picked[1].type) \/ isAudioByName(toLowerCase(picked[1].name)))
       THEN /\ errorMsg' = Null
            /\ onFileSelected(picked[1].content)
       ELSE /\ errorMsg' = IF picked = Null THEN Null ELSE InvalidFileMessage
            /\ UNCHANGED <<appState, audioFile, transcription, currentTime, activeTab,
                           pending, liveUrls, nextUrl, elTime, isPlaying,
                           timeupdateQueued>>

UploadNext ==
    \/ \E picked \in PickedFiles : handleInputChange(picked)
    \/ \E req \in pending : TranscribeResolved(req)
    \/ \E req \in pending : TranscribeRejected(req)
    \/ handleReset

SpecUpload == Init /\ [][UploadNext]_vars

----------------------------------------------------------------------------
(* File validation: C26 *)

\* The file the input's change event carried in the step, Null if none.
PickedInStep == lastEvent'.arg

\* The session takes the file in the step: Processing, a new URL, a new request.
HandedToSession ==
    /\ appState' = "PROCESSING"
    /\ nextUrl' = nextUrl + 1
    /\ liveUrls' # liveUrls
    /\ Cardinality(pending') = Cardinality(pending) + 1
    /\ audioFile' # Null /\ audioFile'[1].name = PickedInStep[1].content

\* The step leaves the session alone.
SessionUntouched ==
    /\ appState' = "IDLE"
    /\ UNCHANGED <<audioFile, transcription, currentTime, pending, liveUrls, nextUrl>>

\* The name ends in .mp3, .wav, .flac, .m4a, .aac, .ogg or .apk.1 in any letter case.
HasAudioExtension(name) ==
    \E suffix \in AudioSuffixes :
        /\ Len(suffix) <= Len(name)
        /\ \A i \in 1..Len(suffix) :
              LET ch == name[Len(name) - Len(suffix) + i] IN
              ch = suffix[i] \/ \E k \in 1..26 : ch = UpperCaseLetters[k]
                                                   /\ LowerCaseLetters[k] = suffix[i]

\* The MIME type begins with audio/, application/ogg, video/mp4 or video/webm.
HasAudioType(type) ==
    \E prefix \in validAudioTypes :
        Len(type) >= Len(prefix) /\ \A i \in 1..Len(prefix) : type[i] = prefix[i]

\* C26: a file picked in the file input is handed to the session, which starts
\* Processing, iff its MIME type starts with an accepted prefix or its lower-cased
\* name ends in an accepted extension; a file that matches neither leaves the
\* session Idle with no URL allocated and no request started, and sets the
\* validation message.
C26_HandedOverIffAudio ==
    [][(lastEvent'.op = "inputChange" /\ PickedInStep # Null) =>
        /\ HandedToSession <=>
              (HasAudioType(PickedInStep[1].type) \/ HasAudioExtension(PickedInStep[1].name))
        /\ ~(HasAudioType(PickedInStep[1].type) \/ HasAudioExtension(PickedInStep[1].name))
              => (SessionUntouched /\ errorMsg' # Null)]_vars

\* A file without a MIME type and with an upper-case extension has been handed over.
C26_Witness ==
    /\ lastEvent.op = "inputChange"
    /\ lastEvent.arg # Null
    /\ lastEvent.arg[1].type = << >>
    /\ lastEvent.arg[1].name = <<"A", ".", "M", "P", "3">>
    /\ appState = "PROCESSING"
    /\ errorMsg = Null

----------------------------------------------------------------------------
(* TranscriptView.tsx and ShadowingView.tsx: practice on a loaded transcript *)

\* The loaded transcript has at most this many segments.
MaxPracticeSegments == 3

\* At most this many recordings and requests for speech or for a definition are
\* begun in a run.
MaxCalls == 2

\* The i-th segment of the loaded transcript: 2 s long, its text "line i", and an
\* idiomatic rephrasing "idiom i" for every other segment ("" otherwise).
PracticeSegment(i) ==
    [start |-> 4 * (i - 1), end |-> 4 * i,
     text |-> <<"line", " ", ToString(i)>>, translation |-> <<"zh">>,
     idiomatic |-> IF i % 2 = 1 THEN <<"idiom", " ", ToString(i)>> ELSE << >>,
     isFavorite |-> Undefined, ref |-> i]

\* A transcription of n segments as transcribeAudio resolves to.
PracticeTranscript(n) ==
    [language |-> "en",
     meta |-> [wordCount |-> 2 * n, estimatedLevel |-> "B2", speed |-> "140 wpm"],
     segments |-> [i \in 1..n |-> PracticeSegment(i)]]

\* The session after a file has been transcribed: Ready with the transcript shown,
\* or Shadowing entered from there; nothing has been practised yet.
ViewsInit ==
    /\ MergerIdle
    /\ ClientIdle
    /\ ViewsIdle
    /\ appState \in {"READY", "SHADOWING"}
    /\ audioFile = Some([name |-> "talk.mp3", url |-> 1])
    /\ transcription \in {Some(PracticeTranscript(n)) : n \in 1..MaxPracticeSegments}
    /\ currentTime = 0
    /\ activeTab = "original"
    /\ pending = {}
    /\ liveUrls = {1}
    /\ nextUrl = 2
    /\ elTime = IF appState = "READY" THEN 0 ELSE NoElement
    /\ isPlaying = FALSE
    /\ timeupdateQueued = FALSE
    /\ lastEvent = Event("init", 0)

\* What no handler of the two views touches.
outsidePractice == <<session, merger, client, upload>>

\* const currentSegment = segments[currentIndex]
currentSegment == transcription[1].segments[currentIndex + 1]

\* The view is mounted.
Mounted(view) == IF view = "shadowing" THEN ShadowingViewShown ELSE TranscriptViewShown

\* A state setter of a view called from a resumed handler: without effect once the
\* view is unmounted.
SetState(view, new, old) == IF Mounted(view) THEN new ELSE old

\* The asynchronous operation a handler of `view` begins now for `arg`.
Call(view, arg) == [id |-> nextCall, view |-> view, arg |-> arg]

\* The handler of `view` that awaits recorder.stop() for `arg`; it is known by the
\* stream of the recorder it stops.
StopCall(view, arg) == [id |-> mediaRecorder[1].stream, view |-> view, arg |-> arg]

----------------------------------------------------------------------------
(* audioUtils.ts: AudioRecorder *)

\* recorder.stop(): without a mediaRecorder the promise never settles; stop() on a
\* MediaRecorder that is inactive throws, which rejects the promise; otherwise the
\* recorder stops, its stream's tracks are stopped and onstop resolves the promise.
StopOutcome ==
    IF mediaRecorder = Null THEN "hangs"
    ELSE IF mediaRecorder[1].state = "inactive" THEN "throws"
    ELSE "stops"

RecorderAfterStop ==
    IF StopOutcome = "stops"
    THEN Some([mediaRecorder[1] EXCEPT !.state = "inactive"])
    ELSE mediaRecorder

StreamsAfterStop ==
    IF StopOutcome = "stops" THEN streams \ {mediaRecorder[1].stream} ELSE streams

\* recorder.start() after getUserMedia has resolved: the new stream is live,
\* this.mediaRecorder = new MediaRecorder(stream) replaces the one held before and
\* this.audioChunks = [] the array held before.
StreamsAfterStart(call) == streams \cup {call.id}

\* getUserMedia resolves: recorder.start() finishes and the handler that awaited it
\* goes on, with setIsRecording(true) in ShadowingView, with
\* setRecordingIdiomText(text) and the deletion of the text's score in TranscriptView.
startResolved(call) ==
    /\ call \in starting
    /\ starting' = starting \ {call}
    /\ streams' = StreamsAfterStart(call)
    /\ mediaRecorder' = Some([stream |-> call.id, state |-> "recording"])
    /\ audioChunks' = << >>
    /\ IF call.view = "shadowing"
       THEN /\ isRecording' = SetState(call.view, TRUE, isRecording)
            /\ UNCHANGED <<recordingIdiomText, idiomScores>>
       ELSE /\ recordingIdiomText' = SetState(call.view, Some(call.arg), recordingIdiomText)
            /\ idiomScores' = SetState(call.view, idiomScores \ {call.arg}, idiomScores)
            /\ UNCHANGED isRecording
    /\ lastEvent' = Event("startResolved", call.view)
    /\ UNCHANGED <<currentIndex, score, isProcessing, definition, audioCache,
                   loadingIdiomText, playingIdiomText, scoringIdiomText, userRecordings,
                   recordingUrls, nextCall, stopping, scoring, speaking, defining, synthesized>>
    /\ UNCHANGED outsidePractice

\* getUserMedia rejects (no permission, no device): the handler ends, in
\* TranscriptView through its catch.
startRejected(call) ==
    /\ call \in starting
    /\ starting' = starting \ {call}
    /\ lastEvent' = Event("startRejected", call.view)
    /\ UNCHANGED <<shadowingView, transcriptView, mediaRecorder, streams, recordingUrls,
                   nextCall, stopping, scoring, speaking, defining,
                   synthesized>>
    /\ UNCHANGED audioChunks
    /\ UNCHANGED outsidePractice

\* The dataavailable event of the recorder that was stopped, dispatched before its
\* stop event: this.audioChunks.push(event.data), this.audioChunks being the array
\* the AudioRecorder holds now.
ChunksAfterStop(call) == Append(audioChunks, call.id)

\* const url = URL.createObjectURL(blob)
UrlsAfterRecording(call) == recordingUrls \cup {call.id}

\* The recorder that was stopped delivers its data and onstop fires: the blob is
\* new Blob(this.audioChunks), with which the promise of recorder.stop() resolves;
\* the handler goes on up to `await scorePronunciation(...)`: setIsProcessing(true)
\* in ShadowingView; the blob URL and setUserRecordings in TranscriptView.
stopResolved(call) ==
    /\ call \in stopping
    /\ stopping' = stopping \ {call}
    /\ audioChunks' = ChunksAfterStop(call)
    /\ scoring' = scoring \cup {call}
    /\ IF call.view = "shadowing"
       THEN /\ isProcessing' = SetState(call.view, TRUE, isProcessing)
            /\ UNCHANGED <<userRecordings, recordingUrls>>
       ELSE /\ recordingUrls' = UrlsAfterRecording(call)
            /\ userRecordings' =
                  SetState(call.view,
                           {r \in userRecordings : r.text # call.arg}
                               \cup {[text |-> call.arg, url |-> call.id]},
                           userRecordings)
            /\ UNCHANGED isProcessing
    /\ lastEvent' = Event("stopResolved", call.view)
    /\ UNCHANGED <<currentIndex, isRecording, score, definition, audioCache,
                   loadingIdiomText, playingIdiomText, recordingIdiomText,
                   scoringIdiomText, idiomScores, mediaRecorder, streams, nextCall,
                   starting, speaking, defining, synthesized>>
    /\ UNCHANGED outsidePractice

\* Mutant: a failed scoring leaves the indicators as they are.
AfterScoringFailed_KeepsIndicator(view, indicator, idle) == indicator

\* The `finally` of the two recording handlers: setIsProcessing(false),
\* setScoringIdiomText(null).
AfterScoringFailed(view, indicator, idle) == SetState(view, idle, indicator)

\* scorePronunciation resolves: setScore(result) and setIsProcessing(false) in
\* ShadowingView; the entry in idiomScores and setScoringIdiomText(null) in
\* TranscriptView.
scoreResolved(call) ==
    /\ call \in scoring
    /\ scoring' = scoring \ {call}
    /\ IF call.view = "shadowing"
       THEN /\ score' = SetState(call.view, Some([segment |-> call.arg]), score)
            /\ isProcessing' = SetState(call.view, FALSE, isProcessing)
            /\ UNCHANGED <<idiomScores, scoringIdiomText>>
       ELSE /\ idiomScores' = SetState(call.view, idiomScores \cup {call.arg}, idiomScores)
            /\ scoringIdiomText' = SetState(call.view, Null, scoringIdiomText)
            /\ UNCHANGED <<score, isProcessing>>
    /\ lastEvent' = Event("scoreResolved", call.view)
    /\ UNCHANGED <<currentIndex, isRecording, definition, audioCache, loadingIdiomText,
                   playingIdiomText, recordingIdiomText, userRecordings, mediaRecorder,
                   streams, recordingUrls, nextCall, starting, stopping, speaking,
                   defining, synthesized>>
    /\ UNCHANGED audioChunks
    /\ UNCHANGED outsidePractice

\* scorePronunciation rejects: console.error, then the `finally`.
scoreRejected(call) ==
    /\ call \in scoring
    /\ scoring' = scoring \ {call}
    /\ IF call.view = "shadowing"
       THEN /\ isProcessing' = AfterScoringFailed(call.view, isProcessing, FALSE)
            /\ UNCHANGED scoringIdiomText
       ELSE /\ scoringIdiomText' = AfterScoringFailed(call.view, scoringIdiomText, Null)
            /\ UNCHANGED isProcessing
    /\ lastEvent' = Event("scoreRejected", call.view)
    /\ UNCHANGED <<currentIndex, isRecording, score, definition, audioCache,
                   loadingIdiomText, playingIdiomText, recordingIdiomText, idiomScores,
                   userRecordings, mediaRecorder, streams, recordingUrls, nextCall,
                   starting, stopping, speaking, defining, synthesized>>
    /\ UNCHANGED audioChunks
    /\ UNCHANGED outsidePractice

\* generateSpeech resolves: playPcmData(audio); in TranscriptView the audio is put
\* into audioCache and the loading and playing marks are cleared.
speechResolved(call) ==
    /\ call \in speaking
    /\ speaking' = speaking \ {call}
    /\ synthesized' = synthesized \cup {call.arg}
    /\ IF call.view = "shadowing"
       THEN UNCHANGED <<audioCache, loadingIdiomText, playingIdiomText>>
       ELSE /\ audioCache' = SetState(call.view, audioCache \cup {call.arg}, audioCache)
            /\ loadingIdiomText' = SetState(call.view, Null, loadingIdiomText)
            /\ playingIdiomText' = SetState(call.view, Null, playingIdiomText)
    /\ lastEvent' = Event("speechResolved", call.view)
    /\ UNCHANGED <<shadowingView, definition, recordingIdiomText, scoringIdiomText,
                   idiomScores, userRecordings, mediaRecorder, streams, recordingUrls,
                   nextCall, starting, stopping, scoring, defining>>
    /\ UNCHANGED audioChunks
    /\ UNCHANGED outsidePractice

\* generateSpeech rejects: console.error in playOriginal, nothing in playIdiom; in
\* TranscriptView setLoadingIdiomText(null) in the catch and
\* setPlayingIdiomText(null) in the finally.
speechRejected(call) ==
    /\ call \in speaking
    /\ speaking' = speaking \ {call}
    /\ IF call.view = "shadowing"
       THEN UNCHANGED <<loadingIdiomText, playingIdiomText>>
       ELSE /\ loadingIdiomText' = SetState(call.view, Null, loadingIdiomText)
            /\ playingIdiomText' = SetState(call.view, Null, playingIdiomText)
    /\ lastEvent' = Event("speechRejected", call.view)
    /\ UNCHANGED <<shadowingView, definition, audioCache, recordingIdiomText,
                   scoringIdiomText, idiomScores, userRecordings, mediaRecorder, streams,
                   recordingUrls, nextCall, starting, stopping, scoring, defining, synthesized>>
    /\ UNCHANGED audioChunks
    /\ UNCHANGED outsidePractice

\* The object getWordDefinition resolves to for a call: the definition of the
\* call's word, an object of its own for every call.
DefinitionFor(call) == [word |-> call.arg, request |-> call.id]

\* getWordDefinition resolves: setDefinition(def).
definitionResolved(call) ==
    /\ call \in defining
    /\ defining' = defining \ {call}
    /\ definition' = SetState(call.view, Some(DefinitionFor(call)), definition)
    /\ lastEvent' = Event("definitionResolved", call.view)
    /\ UNCHANGED <<shadowingView, audioCache, loadingIdiomText, playingIdiomText,
                   recordingIdiomText, scoringIdiomText, idiomScores, userRecordings,
                   mediaRecorder, streams, recordingUrls, nextCall, starting, stopping,
                   scoring, speaking, synthesized>>
    /\ UNCHANGED audioChunks
    /\ UNCHANGED outsidePractice

\* getWordDefinition rejects: console.error.
definitionRejected(call) ==
    /\ call \in defining
    /\ defining' = defining \ {call}
    /\ lastEvent' = Event("definitionRejected", call.view)
    /\ UNCHANGED <<shadowingView, transcriptView, mediaRecorder, streams, recordingUrls,
                   nextCall, starting, stopping, scoring, speaking,
                   synthesized>>
    /\ UNCHANGED audioChunks
    /\ UNCHANGED outsidePractice

----------------------------------------------------------------------------
(* ShadowingView.tsx: the handlers *)

\* handleRecordToggle up to its first await; the button is disabled while
\* isProcessing.
handleRecordToggle ==
    /\ ShadowingViewShown
    /\ ~isProcessing
    /\ IF isRecording
       THEN /\ isRecording' = FALSE
            /\ mediaRecorder' = RecorderAfterStop
            /\ streams' = StreamsAfterStop
            /\ stopping' = IF StopOutcome = "stops"
                           THEN stopping \cup {StopCall("shadowing", currentIndex)}
                           ELSE stopping
            /\ UNCHANGED <<score, starting, nextCall>>
       ELSE /\ nextCall <= MaxCalls
            /\ nextCall' = nextCall + 1
            /\ score' = Null
            /\ starting' = starting \cup {Call("shadowing", Null)}
            /\ UNCHANGED <<isRecording, mediaRecorder, streams, stopping>>
    /\ lastEvent' = Event("recordToggle", "shadowing")
    /\ UNCHANGED <<currentIndex, isProcessing, transcriptView, recordingUrls, scoring,
                   speaking, defining, synthesized>>
    /\ UNCHANGED audioChunks
    /\ UNCHANGED outsidePractice

\* Mutant: Prev without the clamp.
PrevIndex_Unclamped(index) == index - 1

\* Math.max(0, currentIndex - 1)
PrevIndex(index) == IF index - 1 < 0 THEN 0 ELSE index - 1

\* Math.min(segments.length - 1, currentIndex + 1)
NextIndex(index, length) == IF index + 1 > length - 1 THEN length - 1 ELSE index + 1

\* Prev: setCurrentIndex(Math.max(0, currentIndex - 1)). The button is disabled at
\* index 0, where the handler leaves the index as it is.
onPrev ==
    /\ ShadowingViewShown
    /\ currentIndex' = PrevIndex(currentIndex)
    /\ lastEvent' = Event("prev", "shadowing")
    /\ UNCHANGED <<isRecording, score, isProcessing, transcriptView, mediaRecorder,
                   streams, recordingUrls, nextCall, starting, stopping, scoring,
                   speaking, defining, synthesized>>
    /\ UNCHANGED audioChunks
    /\ UNCHANGED outsidePractice

\* Next: setCurrentIndex(Math.min(segments.length - 1, currentIndex + 1)). The button
\* is disabled at the last index, where the handler leaves the index as it is.
onNext ==
    /\ ShadowingViewShown
    /\ currentIndex' = NextIndex(currentIndex, Len(transcription[1].segments))
    /\ lastEvent' = Event("next", "shadowing")
    /\ UNCHANGED <<isRecording, score, isProcessing, transcriptView, mediaRecorder,
                   streams, recordingUrls, nextCall, starting, stopping, scoring,
                   speaking, defining, synthesized>>
    /\ UNCHANGED audioChunks
    /\ UNCHANGED outsidePractice

\* A call of generateSpeech(text) from a handler of `view`.
RequestSpeech(view, text) ==
    /\ nextCall <= MaxCalls
    /\ nextCall' = nextCall + 1
    /\ speaking' = speaking \cup {Call(view, text)}

\* playOriginal: await generateSpeech(currentSegment.text)
playOriginal ==
    /\ ShadowingViewShown
    /\ RequestSpeech("shadowing", currentSegment.text)
    /\ lastEvent' = Event("playOriginal", "shadowing")
    /\ UNCHANGED <<shadowingView, transcriptView, mediaRecorder, streams, recordingUrls,
                   starting, stopping, scoring, defining, synthesized>>
    /\ UNCHANGED audioChunks
    /\ UNCHANGED outsidePractice

\* playIdiom: if (currentSegment.idiomatic) await generateSpeech(currentSegment.idiomatic);
\* the button is disabled without an idiomatic text.
playIdiom ==
    /\ ShadowingViewShown
    /\ currentSegment.idiomatic # << >>
    /\ RequestSpeech("shadowing", currentSegment.idiomatic)
    /\ lastEvent' = Event("playIdiom", "shadowing")
    /\ UNCHANGED <<shadowingView, transcriptView, mediaRecorder, streams, recordingUrls,
                   starting, stopping, scoring, defining, synthesized>>
    /\ UNCHANGED audioChunks
    /\ UNCHANGED outsidePractice

----------------------------------------------------------------------------
(* TranscriptView.tsx: the handlers *)

\* segment.text.split(' '): the words of the k-th displayed segment.
WordsOf(k) ==
    {displayedSegments[k].text[i] : i \in {j \in 1..Len(displayedSegments[k].text) :
                                              displayedSegments[k].text[j] # " "}}

\* handleWordClick up to `await getWordDefinition(cleanWord, segmentText)`; the words
\* of the transcript consist of word characters, so cleanWord is the word.
handleWordClick(k, word) ==
    /\ TranscriptViewShown
    /\ k \in 1..Len(displayedSegments)
    /\ word \in WordsOf(k)
    /\ nextCall <= MaxCalls
    /\ nextCall' = nextCall + 1
    /\ defining' = defining \cup {Call("transcript", word)}
    /\ lastEvent' = Event("wordClick", "transcript")
    /\ UNCHANGED <<shadowingView, transcriptView, mediaRecorder, streams, recordingUrls,
                   starting, stopping, scoring, speaking, synthesized>>
    /\ UNCHANGED audioChunks
    /\ UNCHANGED outsidePractice

\* The overlay's backdrop and its close button: setDefinition(null).
closeDefinition ==
    /\ TranscriptViewShown
    /\ definition # Null
    /\ definition' = Null
    /\ lastEvent' = Event("closeDefinition", "transcript")
    /\ UNCHANGED <<shadowingView, audioCache, loadingIdiomText, playingIdiomText,
                   recordingIdiomText, scoringIdiomText, idiomScores, userRecordings,
                   mediaRecorder, streams, recordingUrls, nextCall, starting, stopping,
                   scoring, speaking, defining, synthesized>>
    /\ UNCHANGED audioChunks
    /\ UNCHANGED outsidePractice

\* The idiomatic texts shown, each with its Listen and Shadow buttons.
IdiomsShown ==
    {displayedSegments[k].idiomatic : k \in {j \in 1..Len(displayedSegments) :
                                                displayedSegments[j].idiomatic # << >>}}

\* handlePlayIdiom up to `await generateSpeech(text)`: nothing while a text is
\* loading; a cached text is played at once, setPlayingIdiomText(text) and
\* setPlayingIdiomText(null) following each other; otherwise the text is requested.
handlePlayIdiom(text) ==
    /\ TranscriptViewShown
    /\ text \in IdiomsShown
    /\ loadingIdiomText = Null
    /\ IF text \in audioCache
       THEN UNCHANGED <<playingIdiomText, loadingIdiomText, nextCall, speaking>>
       ELSE /\ playingIdiomText' = Some(text)
            /\ loadingIdiomText' = Some(text)
            /\ RequestSpeech("transcript", text)
    /\ lastEvent' = Event("playIdiom", "transcript")
    /\ UNCHANGED <<shadowingView, definition, audioCache, recordingIdiomText,
                   scoringIdiomText, idiomScores, userRecordings, mediaRecorder, streams,
                   recordingUrls, starting, stopping, scoring, defining, synthesized>>
    /\ UNCHANGED audioChunks
    /\ UNCHANGED outsidePractice

\* handleToggleRecordIdiom up to its first await; the button is disabled while a
\* text is being scored, and a click while another text is recording returns at
\* once. A stop() that throws ends in the catch and the finally.
handleToggleRecordIdiom(text) ==
    /\ TranscriptViewShown
    /\ text \in IdiomsShown
    /\ scoringIdiomText = Null
    /\ recordingIdiomText \in {Null, Some(text)}
    /\ IF recordingIdiomText = Some(text)
       THEN /\ recordingIdiomText' = Null
            /\ scoringIdiomText' = IF StopOutcome = "throws" THEN Null ELSE Some(text)
            /\ mediaRecorder' = RecorderAfterStop
            /\ streams' = StreamsAfterStop
            /\ stopping' = IF StopOutcome = "stops"
                           THEN stopping \cup {StopCall("transcript", text)}
                           ELSE stopping
            /\ UNCHANGED <<starting, nextCall>>
       ELSE /\ nextCall <= MaxCalls
            /\ nextCall' = nextCall + 1
            /\ starting' = starting \cup {Call("transcript", text)}
            /\ UNCHANGED <<recordingIdiomText, scoringIdiomText, mediaRecorder, streams,
                           stopping>>
    /\ lastEvent' = Event("recordIdiom", "transcript")
    /\ UNCHANGED <<shadowingView, definition, audioCache, loadingIdiomText,
                   playingIdiomText, idiomScores, userRecordings, recordingUrls,
                   scoring, speaking, defining, synthesized>>
    /\ UNCHANGED audioChunks
    /\ UNCHANGED outsidePractice

ViewsNext ==
    \/ handleRecordToggle
    \/ onPrev
    \/ onNext
    \/ playOriginal
    \/ playIdiom
    \/ \E k \in 1..Len(displayedSegments) : \E word \in WordsOf(k) : handleWordClick(k, word)
    \/ closeDefinition
    \/ \E text \in IdiomsShown : handlePlayIdiom(text)
    \/ \E text \in IdiomsShown : handleToggleRecordIdiom(text)
    \/ \E call \in starting : startResolved(call)
    \/ \E call \in starting : startRejected(call)
    \/ \E call \in stopping : stopResolved(call)
    \/ \E call \in scoring : scoreResolved(call)
    \/ \E call \in scoring : scoreRejected(call)
    \/ \E call \in speaking : speechResolved(call)
    \/ \E call \in speaking : speechRejected(call)
    \/ \E call \in defining : definitionResolved(call)
    \/ \E call \in defining : definitionRejected(call)
    \/ handleReset

SpecViews == ViewsInit /\ [][ViewsNext]_vars

----------------------------------------------------------------------------
(* Shadowing navigation: C22 *)

\* The number of segments ShadowingView is given.
SegmentCount == Len(transcription[1].segments)

\* C22: with a non-empty segment list the index stays within 0 .. length - 1; Prev
\* at index 0 and Next at the last index leave it unchanged; and Prev and Next
\* change it by at most one.
C22_IndexStaysInRange ==
    [][(ShadowingViewShown /\ SegmentCount > 0) =>
        /\ currentIndex' >= 0 /\ currentIndex' <= SegmentCount - 1
        /\ lastEvent'.op \in {"prev", "next"} =>
              (currentIndex' - currentIndex) \in {-1, 0, 1}
        /\ (lastEvent'.op = "prev" /\ currentIndex = 0) => currentIndex' = 0
        /\ (lastEvent'.op = "next" /\ currentIndex = SegmentCount - 1)
              => currentIndex' = currentIndex]_vars

\* Of three segments the last one was reached and Prev has led one back.
C22_Witness ==
    /\ ShadowingViewShown
    /\ SegmentCount = 3
    /\ lastEvent.op = "prev"
    /\ currentIndex = 1

----------------------------------------------------------------------------
(* One recording at a time: C23 *)

\* C23: at most one media stream is live at any time; a click on a record button
\* while a stream is live suspends no handler in recorder.start(); and a handler
\* that awaits recorder.stop() stops a recorder whose stream is live, that is whose
\* start has completed.
C23_OneRecordingAtATime ==
    [][/\ Cardinality(streams') <= 1
       /\ (lastEvent'.op \in {"recordToggle", "recordIdiom"} /\ streams # {})
            => starting' = starting
       /\ \A call \in stopping' \ stopping : call.id \in streams]_vars

----------------------------------------------------------------------------
(* Speech synthesis once per text: C24 *)

\* C24: no step calls generateSpeech for a text for which a call has succeeded
\* before, from whichever view the step comes.
C24_SynthesizedOncePerText ==
    [][\A call \in speaking' \ speaking : call.arg \notin synthesized]_vars

----------------------------------------------------------------------------
(* Failures stay local: C25 *)

\* C25: a step in which a request for a definition, for speech or for a score
\* fails leaves appState, audioFile, transcription and currentTime as they are, and
\* in the view that made the request, if it is still mounted, the loading mark
\* (loadingIdiomText, playingIdiomText) or the scoring mark (isProcessing,
\* scoringIdiomText) is back at its idle value.
C25_FailureStaysLocal ==
    [][lastEvent'.op \in {"definitionRejected", "speechRejected", "scoreRejected"} =>
        /\ UNCHANGED <<appState, audioFile, transcription, currentTime>>
        /\ (lastEvent'.op = "speechRejected" /\ lastEvent'.arg = "transcript"
                /\ TranscriptViewShown)
              => (loadingIdiomText' = << >> /\ playingIdiomText' = << >>)
        /\ (lastEvent'.op = "scoreRejected" /\ lastEvent'.arg = "transcript"
                /\ TranscriptViewShown)
              => scoringIdiomText' = << >>
        /\ (lastEvent'.op = "scoreRejected" /\ lastEvent'.arg = "shadowing"
                /\ ShadowingViewShown)
              => isProcessing' = FALSE]_vars

\* The scoring of a recording made in the transcript view has failed: the recording
\* is kept, the text has no score and nothing is being scored.
C25_Witness ==
    /\ lastEvent = Event("scoreRejected", "transcript")
    /\ TranscriptViewShown
    /\ userRecordings # {}
    /\ idiomScores = {}
    /\ scoringIdiomText = Null

----------------------------------------------------------------------------
(* Scores and segments: C27 *)

\* C27: a score shown in the shadowing view is the score of the segment shown with it.
C27_ScoreIsOfShownSegment ==
    (ShadowingViewShown /\ score # Null) => score[1].segment = currentIndex

----------------------------------------------------------------------------
(* Recording URLs: C28 *)

\* C28: every live recording URL is the one kept for some phrase, a superseded one
\* having been released, and after a reset no recording URL is live.
C28_RecordingUrlsReleased ==
    /\ recordingUrls \subseteq {r.url : r \in userRecordings}
    /\ appState = "IDLE" => recordingUrls = {}

----------------------------------------------------------------------------
(* The record control while a score is awaited: C31 *)

\* The record control of the view is disabled.
RecordDisabled(view) ==
    IF view = "shadowing" THEN isProcessing ELSE scoringIdiomText # Null

\* The requests to scorePronunciation that handlers of the mounted view await.
ScoringOf(view) == {call \in scoring : call.view = view /\ Mounted(view)}

\* C31: while a handler of the view shown awaits scorePronunciation the record
\* control of that view is disabled, no click on it is handled and no recording
\* starts; and when the request has succeeded or failed the control is enabled.
C31_NoRecordingWhileScoring ==
    [][/\ \A view \in {"shadowing", "transcript"} :
             ScoringOf(view)' # {} => RecordDisabled(view)'
       /\ \A view \in {"shadowing", "transcript"} :
             ScoringOf(view) # {} =>
                /\ ~(lastEvent'.op \in {"recordToggle", "recordIdiom"})
                /\ streams' \subseteq streams
       /\ \A view \in {"shadowing", "transcript"} :
             (lastEvent'.op \in {"scoreResolved", "scoreRejected"}
                 /\ lastEvent'.arg = view /\ Mounted(view))
               => ~RecordDisabled(view)']_vars

----------------------------------------------------------------------------
(* The session's data in each state: C32, C34, C35, C36 *)

\* What transcribing the file yields, without the flags and identities of its
\* segments.
PayloadsOf(trans) == [i \in 1..Len(trans.segments) |-> Payload(trans.segments[i])]

\* C32: in Ready and in Shadowing a transcription and an audio file are stored, and
\* the transcription is the one obtained from the stored audio file.
C32_TranscriptOfStoredFile ==
    appState \in {"READY", "SHADOWING"} =>
        /\ transcription # Null
        /\ audioFile # Null
        /\ transcription[1].meta = transcribeAudio(audioFile[1].name).meta
        /\ PayloadsOf(transcription[1]) = PayloadsOf(transcribeAudio(audioFile[1].name))

\* C34: whenever the shadowing view is shown, segments[currentIndex] exists.
C34_CurrentSegmentExists ==
    ShadowingViewShown =>
        (currentIndex >= 0 /\ currentIndex < Len(transcription[1].segments))

\* C35: a reset leaves the session as it is after construction: Idle, no audio file,
\* no transcription, currentTime 0 and the tab 'original'.
C35_ResetRestoresInitialState ==
    [][lastEvent'.op = "reset" =>
        /\ appState' = "IDLE"
        /\ audioFile' = Null
        /\ transcription' = Null
        /\ currentTime' = 0
        /\ activeTab' = "original"]_vars

\* C36: in Idle there is no audio file and no transcription and currentTime is 0.
C36_IdleIsEmpty ==
    appState = "IDLE" => (audioFile = Null /\ transcription = Null /\ currentTime = 0)

\* Idle after the reset of a second upload whose request is still in flight, a
\* transcript having been shown before (the tab was changed).
C36_Witness ==
    /\ appState = "IDLE"
    /\ lastEvent.op = "reset"
    /\ pending # {}
    /\ nextUrl = 3
    /\ activeTab # "original"

----------------------------------------------------------------------------
(* Word definitions arriving out of order: C37 *)

\* C37: the response to an earlier click on a word does not replace the definition
\* shown for a later click.
C37_LaterClickWins ==
    [][\A call \in defining \ defining' :
          (lastEvent'.op = "definitionResolved" /\ definition # Null
               /\ definition[1].request > call.id)
            => definition' = definition]_vars

----------------------------------------------------------------------------
(* Segment merger, order and overlap: C38 *)

\* The segments are ordered by start.
OrderedByStart(segments) ==
    \A i, j \in 1..Len(segments) : i < j => segments[i].start <= segments[j].start

\* Every segment has start < end.
ProperSpans(segments) ==
    \A i \in 1..Len(segments) : segments[i].start < segments[i].end

\* C38: when the input is ordered by start, has start < end in every segment and no
\* two of its segments overlap, the same holds of the merger's output.
C38_OrderAndDisjointnessKept ==
    (mergedSegments # Null /\ OrderedByStart(rawSegments) /\ ProperSpans(rawSegments)
         /\ NonOverlapping(rawSegments))
      => /\ OrderedByStart(MergerOutput)
         /\ ProperSpans(MergerOutput)
         /\ NonOverlapping(MergerOutput)

\* Of three segments with pauses between them the first took in the second, pause
\* included, and the third follows after its pause.
C38_Witness ==
    /\ mergeRuns = 1
    /\ Len(rawSegments) = 3
    /\ rawSegments[2].start > rawSegments[1].end
    /\ Len(MergerOutput) = 2
    /\ MergerOutput[1].start = rawSegments[1].start
    /\ MergerOutput[1].end = rawSegments[2].end
    /\ MergerOutput[2].start > MergerOutput[1].end

----------------------------------------------------------------------------
(* Segment merger, what it commits: C39 *)

\* The segment has at least 4 whitespace-delimited words or lasts at least 2.0 s.
LongEnough(segment) ==
    WordCount(segment.text) >= 4 \/ segment.end - segment.start >= 4

\* C39: every segment of the merger's output but the last has at least 4 words or
\* lasts at least 2.0 s, and the merger returns its own output unchanged.
C39_CommittedAreLongEnough ==
    /\ [](\A i \in 1..(Len(MergerOutput) - 1) : LongEnough(MergerOutput[i]))
    /\ [][(mergeRuns >= 1 /\ mergeRuns' = mergeRuns + 1)
             => mergedSegments' = mergedSegments]_vars

----------------------------------------------------------------------------
(* Processing ends: C40 *)

\* A transcription request in flight returns or fails.
TranscriptionSettles ==
    \E req \in pending : TranscribeResolved(req) \/ TranscribeRejected(req)

\* The upload control in front of the session, every request in flight being
\* answered at some time: the promise of transcribeAudio settles and the event loop
\* then resumes handleFileSelected.
FairSpecUpload == SpecUpload /\ WF_vars(TranscriptionSettles)

\* C40: when every transcription request returns or fails at some time, every
\* Processing state is followed by Ready, Error or Idle.
C40_ProcessingEnds ==
    (appState = "PROCESSING") ~> (appState \in {"READY", "ERROR", "IDLE"})

\* The transcription of a second upload has failed while the request of the
\* first, left behind by a reset, is still in flight.
C40_Witness ==
    /\ appState = "ERROR"
    /\ lastEvent.op = "rejected"
    /\ lastEvent.arg.url = 2
    /\ pending # {}

----------------------------------------------------------------------------
(* What a recording's blob contains: C33 *)

\* C33: the blob with which recorder.stop() resolves in the shadowing view, built
\* from audioChunks when onstop fires, holds the data of the recording that was
\* stopped and of no other.
C33_BlobIsOfItsRecording ==
    [][\A call \in stopping \ stopping' :
          call.view = "shadowing" => audioChunks' = <<call.id>>]_vars

====
